---- MODULE Spec2Model ----
(***************************************************************************)
(* AF_UNIX sockets emulated on named pipes (fhandler_socket_unix.cc).      *)
(*                                                                         *)
(* The state is a fixed set of socket objects, the threads that call the   *)
(* public methods on them, the connect waiter thread of each socket, the   *)
(* namespace of backing objects (abstract symlinks, reparse files) and the *)
(* named-pipe instances.  A method is cut into steps at the points where   *)
(* another thread can observe or change the object: a lock section is one  *)
(* step, a system call outside any lock is one step.                       *)
(***************************************************************************)
EXTENDS Integers, Sequences, FiniteSets, TLC

Socks   == {"s1", "s2", "s3"}
Threads == {"t1", "t2"}

\* sizeof (sa_family_t), sizeof (struct sockaddr_un), the family tags
SizeofFamily == 2
SunCap == 110
AF_UNIX == 1
AF_OTHER == AF_UNIX + 1

\* ------------------------------------------------------------------ bounds
\* number of pipe instances the pipe file system can hold
MaxInst == 3
\* autobind ids are drawn from 0 .. MaxAutoId (the low 20 bits of the id)
MaxAutoId == 1
\* stack garbage that may follow an unterminated link name: 0 .. MaxJunk
MaxJunk == 1

Min(a, b) == IF a < b THEN a ELSE b

\* ------------------------------------------------------------------ sun_name_t
\* A socket address as the caller passes it: namelen, family, sun_path bytes.
MkAddr(fam, path) == [len |-> SizeofFamily + Len(path), fam |-> fam, path |-> path]

\* a NULL sun_name_t pointer
NULLSUN == [len |-> -1, fam |-> 0, path |-> <<>>]

\* sun_name_t::sun_name_t (name, namelen): the length is clipped to the
\* capacity of sockaddr_un and that many bytes are copied.
SunName(a) ==
  LET n  == IF a.len < 0 THEN 0 ELSE a.len
      ul == IF n < SunCap THEN n ELSE SunCap
      pl == IF ul > SizeofFamily THEN ul - SizeofFamily ELSE 0
  IN  [len |-> ul, fam |-> a.fam, path |-> SubSeq(a.path, 1, Min(pl, Len(a.path)))]

IsUnnamed(sun) == sun.len = SizeofFamily
IsAbstract(sun) == Len(sun.path) > 0 /\ sun.path[1] = 0

\* the validity test of create_file and open_file
InvalidName(sun) ==
  \/ sun.len <= SizeofFamily
  \/ (sun.len = 3 /\ sun.path[1] = 0)

\* path_conv reads sun_path as a C string: the bytes before the first NUL
RECURSIVE CStr(_)
CStr(p) == IF p = <<>> \/ Head(p) = 0 THEN <<>> ELSE <<Head(p)>> \o CStr(Tail(p))

\* __small_sprintf ("%5X", id): upper case hex, padded with blanks to 5
RECURSIVE HexDigits(_)
HexDigits(n) ==
  LET d == n % 16
      c == IF d < 10 THEN 48 + d ELSE 55 + d
  IN  IF n < 16 THEN <<c>> ELSE HexDigits(n \div 16) \o <<c>>

RECURSIVE PadLeft(_, _)
PadLeft(s, w) == IF Len(s) >= w THEN s ELSE PadLeft(<<32>> \o s, w)

\* the name autobind builds from a 20 bit id
AutoName(id) == MkAddr(AF_UNIX, <<0>> \o PadLeft(HexDigits(id % 1048576), 5))

AutoIds == 0 .. MaxAutoId
Junk    == 0 .. MaxJunk

\* ------------------------------------------------------------------ handles
NULLH == <<>>
SrvH(i) == <<"srv", i>>
CliH(i) == <<"cli", i>>
\* what create_pipe and create_pipe_instance return after a failed
\* NtCreateNamedPipeFile when their uninitialised local ph is not 0: a value
\* that is the handle of nothing
BadH == <<"bad">>
\* the handle names no pipe end
NoH(h) == h = NULLH \/ h = BadH
InstIds == 1 .. MaxInst

NoPipeName == [ino |-> "", tc |-> ""]

NoLock == [x |-> "none", sh |-> {}]

VARIABLES
  sk,      \* the socket objects
  lk,      \* bind_lock, conn_lock, io_lock of each socket
  th,      \* the calling threads: position and locals
  links,   \* abstract names: symbolic links in the shared directory
  files,   \* pathname names: reparse points in the file system
  inst,    \* named pipe instances
  wt       \* the connect waiter thread of each socket

vars == <<sk, lk, th, links, files, inst, wt>>

\* AF_UNIX_CONNECT_TIMEOUT is -20 seconds
ConnectSecs == 20

\* ------------------------------------------------------------------ objects
\* fhandler_socket_unix after socket (): nothing bound, nothing connected.
\* fl is the part of the open flags F_SETFL may change, nb is
\* is_nonblocking (): a bit of O_NONBLOCK_MASK is set in fl.
\* unread is 1 from the failure of a connect until a read of SO_ERROR has
\* returned an error, and falls below 0 when more reads return one.
NewSock(type, nb) ==
  [st |-> "open", type |-> type, nb |-> nb,
   fl |-> IF nb THEN {"O_NONBLOCK"} ELSE {},
   bs |-> "unbound", cs |-> "unconnected",
   sun |-> NULLSUN, peer |-> NULLSUN, pfreed |-> FALSE,
   h |-> NULLH, bfh |-> "null", so_error |-> "0", unread |-> 0,
   pname |-> NoPipeName,
   thr |-> "null", evt |-> "null", param |-> "null"]

\* an object that is not constructed yet, and one that was closed and deleted
FreeSock == [NewSock("none", FALSE) EXCEPT !.st = "free"]
ClosedSock == [NewSock("none", FALSE) EXCEPT !.st = "closed"]

\* what connect finds when it is called: connect_state, so_error, peer name
NoPre == [cs |-> "none", so_error |-> "none", peer |-> NULLSUN, pfreed |-> FALSE]

\* a thread that is in no method; op, s, ret, err and out keep the last call.
\* wr is the local waitret of wait_pipe, cw what cygwait returned there, pre
\* the socket as connect found it
IdleFrame ==
  [pc |-> "idle", op |-> "none", s |-> "none", arg |-> NULLSUN,
   ret |-> 0, err |-> "none", out |-> <<>>,
   sun |-> NULLSUN, pipe |-> NULLH, pkt |-> <<>>,
   ppipe |-> NoPipeName, acc |-> NULLH, ns |-> "none", wr |-> "none",
   cw |-> "none", pre |-> NoPre]

\* the connect waiter of a socket: position, locals, and the two objects it
\* shares with the socket (termination event, parameter block)
\* tmo is pwbuf->Timeout, a relative time and so negative, el the time since
\* stamp was taken, both in seconds
NoWaiter ==
  [pc |-> "none", ppipe |-> NoPipeName, err |-> "0", pkt |-> <<>>,
   ev |-> "none", blk |-> "none", tmo |-> 0 - ConnectSecs, el |-> 0]

FreeSlot ==
  [st |-> "free", name |-> NoPipeName, srv |-> FALSE, cli |-> "none",
   smode |-> FALSE, cmode |-> FALSE, qs |-> <<>>, qc |-> <<>>]

TypeChar(type) == IF type = "stream" THEN "s" ELSE IF type = "dgram" THEN "d" ELSE "?"

\* ------------------------------------------------------------------ locks
\* AcquireSRWLockExclusive succeeds when nobody holds the lock,
\* AcquireSRWLockShared when nobody holds it exclusively.
CanLockX(l) == l.x = "none" /\ l.sh = {}
CanLockS(l) == l.x = "none"

\* ------------------------------------------------------------------ pipes
FreeInst == {i \in InstIds : inst[i].st = "free"}

\* the slot a new instance takes: the lowest free one, if there is one
NewSlot == {i \in FreeInst : \A k \in FreeInst : i <= k}

\* a pipe name exists while a server end of one of its instances is open
PipeExists(I, pn) == \E i \in InstIds : I[i].st # "free" /\ I[i].srv /\ I[i].name = pn

\* NtCreateNamedPipeFile: a new instance, listening, in the completion mode
\* of the creating socket
NewInstance(pn, nb) ==
  [st |-> "listening", name |-> pn, srv |-> TRUE, cli |-> "none",
   smode |-> nb, cmode |-> FALSE, qs |-> <<>>, qc |-> <<>>]

\* NtClose on a pipe handle
CloseH(I, h) ==
  IF NoH(h) THEN I
  ELSE LET i == h[2] IN
    IF I[i].st = "free" THEN I
    ELSE IF h[1] = "srv"
      THEN [I EXCEPT ![i] = IF @.cli = "open"
                              THEN [@ EXCEPT !.srv = FALSE, !.st = "closing"]
                              ELSE FreeSlot]
      ELSE [I EXCEPT ![i] = IF @.srv
                              THEN [@ EXCEPT !.cli = "closed",
                                             !.st = IF @ = "connected" THEN "closing" ELSE @]
                              ELSE FreeSlot]

\* set_pipe_non_blocking: the completion mode of the end the handle names
SetPipeMode(I, h, nb) ==
  IF NoH(h) \/ I[h[2]].st = "free" THEN I
  ELSE IF h[1] = "srv" THEN [I EXCEPT ![h[2]].smode = nb]
  ELSE [I EXCEPT ![h[2]].cmode = nb]

\* ------------------------------------------------------------------ returns
\* a call of thread t returns with frame f; of the calls that have returned
\* only the latest one is remembered
Done(t, f) ==
  [u \in Threads |-> IF u = t THEN [f EXCEPT !.arg = NULLSUN]
                     ELSE IF th[u].pc = "idle" THEN IdleFrame ELSE th[u]]

Return(t, ret, err) ==
  Done(t, [IdleFrame EXCEPT !.op = th[t].op, !.s = th[t].s, !.ret = ret, !.err = err])

Call(t, op, s, arg) ==
  [IdleFrame EXCEPT !.op = op, !.s = s, !.arg = arg]

\* no thread is inside a method of socket s
Quiet(s) == \A t \in Threads : th[t].pc = "idle" \/ th[t].s # s

Init ==
  /\ sk = [s \in Socks |-> FreeSock]
  /\ lk = [s \in Socks |-> [bind |-> NoLock, conn |-> NoLock, io |-> NoLock]]
  /\ th = [t \in Threads |-> IdleFrame]
  /\ links = {}
  /\ files = {}
  /\ inst = [i \in InstIds |-> FreeSlot]
  /\ wt = [s \in Socks |-> NoWaiter]

\* ------------------------------------------------------------------ socket
\* fhandler_socket_unix::socket on a fresh object
Socket(s, type, nb) ==
  /\ sk[s].st = "free"
  /\ sk' = [sk EXCEPT ![s] = NewSock(type, nb)]
  /\ UNCHANGED <<lk, th, links, files, inst, wt>>

\* ------------------------------------------------------------------ packets
\* sizeof (af_unix_pkt_hdr_t)
HdrSize == 8

\* init with every length field one byte wide
PktInitByte(shut, n, c, d) ==
  [shut_info |-> shut % 256, name_len |-> n % 256,
   cmsg_len |-> c % 256, data_len |-> d % 256,
   pckt_len |-> (HdrSize + (n % 256) + (c % 256) + (d % 256)) % 65536]

\* af_unix_pkt_hdr_t::init: the fields keep their widths
PktInit(shut, n, c, d) ==
  [shut_info |-> shut % 256, name_len |-> n % 256,
   cmsg_len |-> c % 65536, data_len |-> d % 65536,
   pckt_len |-> (HdrSize + (n % 256) + (c % 65536) + (d % 65536)) % 65536]

\* ------------------------------------------------------------------ names
LinkNames   == {<<l.name, l.junk>> : l \in links}
FileKeys    == {f.key : f \in files}

\* create_abstract_link: the link name is "af-unix-" and the transposed
\* sun_path; the buffer is not terminated behind it, so whatever the stack
\* holds there (junk j, 0 for a NUL) is part of the name that is created.
\* NtCreateSymbolicLinkObject fails when that name exists.
AbstractLinkExists(sun, j) == <<sun.path, j>> \in LinkNames
NewLink(s, sun, j) == [name |-> sun.path, junk |-> j, pipe |-> sk[s].pname, owner |-> s]

\* create_reparse_point: pc.exists () or NtCreateFile (FILE_CREATE) failing
ReparsePointExists(sun) == CStr(sun.path) \in FileKeys
NewFile(s, sun) == [key |-> CStr(sun.path), pipe |-> sk[s].pname]

\* set_sun_path: deletes peer_sun_path (the pointer keeps its value) and
\* stores a copy of the name
SetSunPath(r, sun) ==
  [r EXCEPT !.pfreed = (r.peer # NULLSUN), !.sun = sun]

\* set_peer_sun_path
SetPeerSunPath(r, sun) == [r EXCEPT !.pfreed = FALSE, !.peer = sun]

\* ------------------------------------------------------------------ bind
\* bind, up to the release of bind_lock
BindCall(t, s, a) ==
  LET sun == SunName(a) IN
  /\ th[t].pc = "idle"
  /\ sk[s].st = "open"
  /\ IF sun.fam # AF_UNIX
       THEN /\ th' = Done(t, [Call(t, "bind", s, a) EXCEPT !.ret = -1, !.err = "EINVAL"])
            /\ UNCHANGED sk
       ELSE /\ CanLockX(lk[s].bind)
            /\ IF sk[s].bs = "bind_pending"
                 THEN /\ th' = Done(t, [Call(t, "bind", s, a) EXCEPT !.ret = -1, !.err = "EALREADY"])
                      /\ UNCHANGED sk
                 ELSE IF sk[s].bs = "bound"
                 THEN /\ th' = Done(t, [Call(t, "bind", s, a) EXCEPT !.ret = -1, !.err = "EINVAL"])
                      /\ UNCHANGED sk
                 ELSE /\ sk' = [sk EXCEPT ![s].bs = "bind_pending"]
                      /\ th' = [th EXCEPT ![t] = [Call(t, "bind", s, a) EXCEPT !.pc = "bind_pipe", !.sun = sun]]
  /\ UNCHANGED <<lk, links, files, inst, wt>>

\* gen_pipe_name and, on a datagram socket, create_pipe
BindPipe(t) ==
  LET s  == th[t].s
      pn == [ino |-> s, tc |-> TypeChar(sk[s].type)]
  IN
  /\ th[t].pc = "bind_pipe"
  /\ IF sk[s].type = "dgram"
       THEN \/ \E i \in NewSlot :
                 /\ ~PipeExists(inst, pn)
                 /\ inst' = [inst EXCEPT ![i] = NewInstance(pn, sk[s].nb)]
                 /\ sk' = [sk EXCEPT ![s].pname = pn, ![s].h = SrvH(i)]
                 /\ th' = [th EXCEPT ![t].pc = "bind_file", ![t].pipe = SrvH(i)]
            \/ \* create_pipe failed and returned 0
               /\ sk' = [sk EXCEPT ![s].pname = pn, ![s].bs = "unbound"]
               /\ th' = Return(t, -1, "ENTSTATUS")
               /\ UNCHANGED inst
            \/ \* NtCreateNamedPipeFile failed, ph is not 0
               /\ sk' = [sk EXCEPT ![s].pname = pn, ![s].h = BadH]
               /\ th' = [th EXCEPT ![t].pc = "bind_file", ![t].pipe = BadH]
               /\ UNCHANGED inst
       ELSE /\ sk' = [sk EXCEPT ![s].pname = pn]
            /\ th' = [th EXCEPT ![t].pc = "bind_file"]
            /\ UNCHANGED inst
  /\ UNCHANGED <<lk, links, files, wt>>

\* a bind failure that forgets to leave bind_pending
BindFailPending(t, err) ==
  LET s == th[t].s IN
  /\ sk' = [sk EXCEPT ![s].h = NULLH, ![s].bfh = "null"]
  /\ inst' = CloseH(inst, th[t].pipe)
  /\ th' = Return(t, -1, err)
  /\ UNCHANGED <<links, files>>

\* the failure branch of bind after autobind or create_file returned NULL
BindFail(t, err) ==
  LET s == th[t].s IN
  /\ sk' = [sk EXCEPT ![s].h = NULLH, ![s].bfh = "null", ![s].bs = "unbound"]
  /\ inst' = CloseH(inst, th[t].pipe)
  /\ th' = Return(t, -1, err)
  /\ UNCHANGED <<links, files>>

\* one round of autobind, or create_file
BindFile(t) ==
  LET s   == th[t].s
      sun == th[t].sun
  IN
  /\ th[t].pc = "bind_file"
  /\ IF IsUnnamed(sun)
       THEN \E id \in AutoIds, j \in Junk :
              LET an == SunName(AutoName(id)) IN
              IF AbstractLinkExists(an, j)
                THEN /\ th' = [th EXCEPT ![t].sun = an]
                     /\ UNCHANGED <<sk, links, files, inst>>
                ELSE /\ links' = links \cup {NewLink(s, an, j)}
                     /\ sk' = [sk EXCEPT ![s].bfh = "link"]
                     /\ th' = [th EXCEPT ![t].sun = an, ![t].pc = "bind_name"]
                     /\ UNCHANGED <<files, inst>>
       ELSE IF InvalidName(sun)
         THEN BindFail(t, "EINVAL")
       ELSE IF IsAbstract(sun)
         THEN \E j \in Junk :
              IF AbstractLinkExists(sun, j)
                THEN BindFail(t, "EADDRINUSE")
                ELSE /\ links' = links \cup {NewLink(s, sun, j)}
                     /\ sk' = [sk EXCEPT ![s].bfh = "link"]
                     /\ th' = [th EXCEPT ![t].pc = "bind_name"]
                     /\ UNCHANGED <<files, inst>>
       ELSE IF ReparsePointExists(sun)
         THEN BindFail(t, "EADDRINUSE")
         ELSE /\ files' = files \cup {NewFile(s, sun)}
              /\ sk' = [sk EXCEPT ![s].bfh = "invalid"]
              /\ th' = [th EXCEPT ![t].pc = "bind_name"]
              /\ UNCHANGED <<links, inst>>
  /\ UNCHANGED <<lk, wt>>

\* the end of bind without set_sun_path
BindNameNoStore(t) ==
  LET s == th[t].s IN
  /\ th[t].pc = "bind_name"
  /\ sk' = [sk EXCEPT ![s].bs = "bound"]
  /\ th' = Return(t, 0, "none")
  /\ UNCHANGED <<lk, links, files, inst, wt>>

\* set_sun_path; a connected socket goes on to send_my_name, any other
\* socket is bound
BindName(t) ==
  LET s == th[t].s IN
  /\ th[t].pc = "bind_name"
  /\ IF sk[s].cs = "connected"
       THEN /\ sk' = [sk EXCEPT ![s] = SetSunPath(@, th[t].sun)]
            /\ th' = [th EXCEPT ![t].pc = "smn_copy"]
       ELSE /\ sk' = [sk EXCEPT ![s] = [SetSunPath(@, th[t].sun) EXCEPT !.bs = "bound"]]
            /\ th' = Return(t, 0, "none")
  /\ UNCHANGED <<lk, links, files, inst, wt>>

\* ------------------------------------------------------------------ send_my_name
\* a header-only packet that leaves the name out
SmnPacketUnnamed(r) ==
  [hdr |-> PktInit(0, 0, 0, 0), name |-> NULLSUN]

\* the header-only packet with the local name
SmnPacket(r) ==
  [hdr |-> PktInit(0, IF r.sun = NULLSUN THEN 0 ELSE r.sun.len, 0, 0), name |-> r.sun]

\* NtWriteFile on a pipe handle: the message is queued for the other end
\* when the instance is connected, and fails otherwise
WriteOK(I, h) ==
  /\ ~NoH(h)
  /\ I[h[2]].st = "connected"
  /\ IF h[1] = "cli" THEN I[h[2]].cli = "open" ELSE I[h[2]].srv

PipeWrite(I, h, pkt) ==
  IF ~WriteOK(I, h) THEN I
  ELSE IF h[1] = "cli" THEN [I EXCEPT ![h[2]].qs = Append(@, pkt)]
  ELSE [I EXCEPT ![h[2]].qc = Append(@, pkt)]

\* the io_lock section of send_my_name: force non-blocking, write, restore
SmnWrite(I, r, pkt) == SetPipeMode(PipeWrite(SetPipeMode(I, r.h, TRUE), r.h, pkt), r.h, r.nb)

\* send_my_name, first part: copy the name under shared bind_lock
SmnCopy(t) ==
  LET s == th[t].s IN
  /\ th[t].pc = "smn_copy"
  /\ CanLockS(lk[s].bind)
  /\ th' = [th EXCEPT ![t].pc = "smn_write", ![t].pkt = SmnPacket(sk[s])]
  /\ UNCHANGED <<sk, lk, links, files, inst, wt>>

\* send_my_name, second part, and what the caller does once it returned:
\* bind sets the binding state, connect_pipe and connect set so_error and
\* the connect state
SmnSend(t) ==
  LET s == th[t].s IN
  /\ th[t].pc = "smn_write"
  /\ CanLockX(lk[s].io)
  /\ inst' = SmnWrite(inst, sk[s], th[t].pkt)
  /\ IF th[t].op = "bind"
       THEN sk' = [sk EXCEPT ![s].bs = "bound"]
       ELSE sk' = [sk EXCEPT ![s].so_error = "0", ![s].cs = "connected"]
  /\ th' = Return(t, 0, "none")
  /\ UNCHANGED <<lk, links, files, wt>>

\* the io_lock section of send_my_name step by step, for callers that race
\* with the flag calls, which take no lock.  First step: the lock is taken,
\* the pipe is forced non-blocking, the packet is written and the argument
\* of the second set_pipe_non_blocking, is_nonblocking (), is evaluated
SmnSendRead(t) ==
  LET s == th[t].s IN
  /\ th[t].pc = "smn_write"
  /\ CanLockX(lk[s].io)
  /\ lk' = [lk EXCEPT ![s].io.x = t]
  /\ inst' = PipeWrite(SetPipeMode(inst, sk[s].h, TRUE), sk[s].h, th[t].pkt)
  /\ th' = [th EXCEPT ![t].pc = "smn_restore", ![t].cw = sk[s].nb]
  /\ UNCHANGED <<sk, links, files, wt>>

\* second step: set_pipe_non_blocking is called with the value evaluated,
\* the lock is released, and the caller goes on as after SmnSend
SmnRestore(t) ==
  LET s == th[t].s IN
  /\ th[t].pc = "smn_restore"
  /\ lk' = [lk EXCEPT ![s].io.x = "none"]
  /\ inst' = SetPipeMode(inst, sk[s].h, th[t].cw)
  /\ IF th[t].op = "bind"
       THEN sk' = [sk EXCEPT ![s].bs = "bound"]
       ELSE sk' = [sk EXCEPT ![s].so_error = "0", ![s].cs = "connected"]
  /\ th' = Return(t, 0, "none")
  /\ UNCHANGED <<links, files, wt>>

\* ------------------------------------------------------------------ connect
\* what set_peer_sun_path (NULL) stores: a name object of length 0
EmptySun == [len |-> 0, fam |-> 0, path |-> <<>>]

\* open_file: the pipe name behind a socket name, or the error
OpenFile(sun) ==
  IF InvalidName(sun) THEN [err |-> "EINVAL", pipe |-> NoPipeName]
  ELSE IF IsAbstract(sun)
    THEN IF \E l \in links : l.name = sun.path /\ l.junk = 0
           THEN [err |-> "none",
                 pipe |-> (CHOOSE l \in links : l.name = sun.path /\ l.junk = 0).pipe]
           ELSE [err |-> "ENOENT", pipe |-> NoPipeName]
    ELSE IF \E f \in files : f.key = CStr(sun.path)
           THEN [err |-> "none",
                 pipe |-> (CHOOSE f \in files : f.key = CStr(sun.path)).pipe]
           ELSE [err |-> "ENOENT", pipe |-> NoPipeName]

PeerType(pn) == IF pn.tc = "s" THEN "stream" ELSE IF pn.tc = "d" THEN "dgram" ELSE "none"

\* the instances of a pipe a client can connect to
ListeningInst(I, pn) ==
  {i \in InstIds : I[i].st = "listening" /\ I[i].srv /\ I[i].name = pn}

\* NtOpenFile on a pipe instance: the client end is connected
ClientOpen(I, i) == [I EXCEPT ![i].st = "connected", ![i].cli = "open", ![i].cmode = FALSE]

\* connect, up to the release of conn_lock
ConnCall(t, s, a) ==
  /\ th[t].pc = "idle"
  /\ sk[s].st = "open"
  /\ CanLockX(lk[s].conn)
  /\ IF sk[s].cs = "connect_pending"
       THEN /\ th' = Done(t, [Call(t, "connect", s, a) EXCEPT !.ret = -1, !.err = "EALREADY"])
            /\ UNCHANGED sk
       ELSE IF sk[s].cs = "listener"
       THEN /\ th' = Done(t, [Call(t, "connect", s, a) EXCEPT !.ret = -1, !.err = "EADDRINUSE"])
            /\ UNCHANGED sk
       ELSE IF sk[s].cs = "connected" /\ sk[s].type # "dgram"
       THEN /\ th' = Done(t, [Call(t, "connect", s, a) EXCEPT !.ret = -1, !.err = "EISCONN"])
            /\ UNCHANGED sk
       ELSE /\ sk' = [sk EXCEPT ![s].cs = "connect_pending"]
            /\ th' = [th EXCEPT ![t] = [Call(t, "connect", s, a) EXCEPT
                                          !.pc = "conn_check", !.sun = SunName(a),
                                          !.pre = [cs |-> sk[s].cs, so_error |-> sk[s].so_error,
                                                   peer |-> sk[s].peer, pfreed |-> sk[s].pfreed]]]
  /\ UNCHANGED <<lk, links, files, inst, wt>>

\* the checks of connect without the comparison of the peer's type
ConnCheckErrNoType(sun, type) ==
  IF sun.len <= SizeofFamily THEN "EINVAL"
  ELSE IF sun.fam # AF_UNIX THEN "EAFNOSUPPORT"
  ELSE IF sun.len = 3 /\ sun.path[1] = 0 THEN "EINVAL"
  ELSE IF OpenFile(sun).err # "none" THEN OpenFile(sun).err
  ELSE "none"

\* the error of the checks connect makes before it opens the pipe
ConnCheckErr(sun, type) ==
  IF sun.len <= SizeofFamily THEN "EINVAL"
  ELSE IF sun.fam # AF_UNIX THEN "EAFNOSUPPORT"
  ELSE IF sun.len = 3 /\ sun.path[1] = 0 THEN "EINVAL"
  ELSE IF OpenFile(sun).err # "none" THEN OpenFile(sun).err
  ELSE IF PeerType(OpenFile(sun).pipe) # type THEN "EINVAL"
  ELSE "none"

\* name checks, open_file, set_peer_sun_path; a datagram socket is connected
ConnCheck(t) ==
  LET s   == th[t].s
      sun == th[t].sun
      e   == ConnCheckErr(sun, sk[s].type)
  IN
  /\ th[t].pc = "conn_check"
  /\ IF e # "none"
       THEN /\ sk' = [sk EXCEPT ![s].cs = "unconnected"]
            /\ th' = Return(t, -1, e)
       ELSE IF sk[s].type = "dgram"
       THEN /\ sk' = [sk EXCEPT ![s] = [SetPeerSunPath(@, sun) EXCEPT !.cs = "connected"]]
            /\ th' = Return(t, 0, "none")
       ELSE /\ sk' = [sk EXCEPT ![s] = SetPeerSunPath(@, sun)]
            /\ th' = [th EXCEPT ![t].pc = "conn_open", ![t].ppipe = OpenFile(sun).pipe]
  /\ UNCHANGED <<lk, links, files, inst, wt>>

\* what connect does when connect_pipe failed with an errno other than
\* EINPROGRESS
ConnFailed(r) == [SetPeerSunPath(r, EmptySun) EXCEPT !.cs = "connect_failed"]

\* connect_pipe: open_pipe, and its three outcomes
ConnOpen(t) ==
  LET s  == th[t].s
      pn == th[t].ppipe
  IN
  /\ th[t].pc = "conn_open"
  /\ IF ~PipeExists(inst, pn)
       THEN /\ sk' = [sk EXCEPT ![s] = [ConnFailed(@) EXCEPT !.so_error = "ENOENT", !.unread = 1]]
            /\ th' = Return(t, -1, "ENOENT")
            /\ UNCHANGED inst
       ELSE IF ListeningInst(inst, pn) = {}
       THEN /\ th' = [th EXCEPT ![t].pc = "wp_start"]
            /\ UNCHANGED <<sk, inst>>
       ELSE \E i \in ListeningInst(inst, pn) :
            /\ inst' = ClientOpen(inst, i)
            /\ sk' = [sk EXCEPT ![s].h = CliH(i)]
            /\ th' = [th EXCEPT ![t].pc = "smn_copy"]
  /\ UNCHANGED <<lk, links, files, wt>>

\* ------------------------------------------------------------------ wait_pipe
\* cfree on the parameter block
Cfree(b) == IF b = "alloc" THEN "freed" ELSE IF b = "none" THEN "none" ELSE "freed twice"

\* NtClose / SetEvent on the termination event object
EvClose(e) == IF e = "none" THEN "none" ELSE "closed"
EvSet(e) == IF e = "open" THEN "signalled" ELSE e

\* the end of connect after connect_pipe returned: ret < 0 with an errno
\* other than EINPROGRESS drops the peer name and sets connect_failed,
\* ret = 0 sets connected
ConnTail(r, ret, err) ==
  IF ret < 0
    THEN IF err # "EINPROGRESS" THEN ConnFailed(r) ELSE r
    ELSE [r EXCEPT !.cs = "connected"]

\* wait_pipe up to CreateThread
WpStart(t) ==
  LET s == th[t].s IN
  /\ th[t].pc = "wp_start"
  /\ wt[s].pc \in {"none", "done"}
  /\ \/ \* create_event failed: return -1
        /\ sk' = [sk EXCEPT ![s] = [ConnTail(@, -1, "ENTSTATUS") EXCEPT !.evt = "null"]]
        /\ th' = Return(t, -1, "ENTSTATUS")
        /\ UNCHANGED wt
     \/ \* CreateThread failed: the block is freed, cwt_param keeps pointing
        \* to it, and the event is closed at out
        /\ sk' = [sk EXCEPT ![s] = [ConnTail(@, -1, "ENTSTATUS") EXCEPT
                                      !.evt = "null", !.param = "blk", !.thr = "null"]]
        /\ wt' = [wt EXCEPT ![s].ev = "closed", ![s].blk = "freed"]
        /\ th' = Return(t, -1, "ENTSTATUS")
     \/ \* the waiter runs
        /\ sk' = [sk EXCEPT ![s].evt = "evt", ![s].param = "blk", ![s].thr = "thr"]
        /\ wt' = [wt EXCEPT ![s] = [NoWaiter EXCEPT !.pc = "w_start", !.ppipe = th[t].ppipe,
                                                    !.ev = "open", !.blk = "alloc"]]
        /\ th' = [th EXCEPT ![t].pc = IF sk[s].nb THEN "wp_out" ELSE "wp_wait",
                            ![t].ret = -1,
                            ![t].err = IF sk[s].nb THEN "EINPROGRESS" ELSE "none"]
  /\ UNCHANGED <<lk, links, files, inst>>

\* the label out of wait_pipe (the termination event is taken out of the
\* socket and closed), and the end of connect
WpOut(t) ==
  LET s == th[t].s IN
  /\ th[t].pc = "wp_out"
  /\ sk' = [sk EXCEPT ![s] = [ConnTail(@, th[t].ret, th[t].err) EXCEPT !.evt = "null"]]
  /\ wt' = [wt EXCEPT ![s].ev = IF sk[s].evt = "evt" THEN EvClose(@) ELSE @]
  /\ th' = Return(t, th[t].ret, th[t].err)
  /\ UNCHANGED <<lk, links, files, inst>>

\* cygwait on the waiter thread returns because the waiter has exited
WpWaitDone(t) ==
  LET s == th[t].s IN
  /\ th[t].pc = "wp_wait"
  /\ wt[s].pc = "done"
  /\ th' = [th EXCEPT ![t].pc = "wp_reap", ![t].wr = "WAIT_OBJECT_0", ![t].cw = "WAIT_OBJECT_0"]
  /\ UNCHANGED <<sk, lk, links, files, inst, wt>>

\* cygwait returns something else than WAIT_OBJECT_0 (cw): the termination
\* event is set
WpWaitOther(t, cw) ==
  LET s == th[t].s IN
  /\ th[t].pc = "wp_wait"
  /\ wt' = [wt EXCEPT ![s].ev = IF sk[s].evt = "evt" THEN EvSet(@) ELSE @]
  /\ th' = [th EXCEPT ![t].pc = "wp_join", ![t].wr = cw, ![t].cw = cw]
  /\ UNCHANGED <<sk, lk, links, files, inst>>

\* cygwait is interrupted by a signal
WpWaitIntr(t) == WpWaitOther(t, "WAIT_SIGNALED")

\* cygwait finds a pending thread cancel
WpWaitCancel(t) == WpWaitOther(t, "WAIT_CANCELED")

\* the waiter is joined, and waitret is set to WAIT_SIGNALED
WpJoin(t) ==
  LET s == th[t].s IN
  /\ th[t].pc = "wp_join"
  /\ wt[s].pc = "done"
  /\ th' = [th EXCEPT ![t].pc = "wp_reap", ![t].wr = "WAIT_SIGNALED"]
  /\ UNCHANGED <<sk, lk, links, files, inst, wt>>

\* the rest of wait_pipe: thread handle and parameter block are taken out of
\* the socket; on WAIT_CANCELED the thread cancels itself and does not
\* return, else the result is stored; then out, and the end of connect
WpReap(t) ==
  LET s   == th[t].s
      err == wt[s].err
      ret == IF th[t].wr = "WAIT_SIGNALED" \/ err # "0" THEN -1 ELSE 0
      eno == IF th[t].wr = "WAIT_SIGNALED" THEN "EINTR" ELSE IF err # "0" THEN err ELSE "none"
      r1  == [sk[s] EXCEPT !.thr = "null", !.param = "null", !.evt = "null",
                           !.so_error = IF th[t].wr = "WAIT_SIGNALED" THEN @ ELSE err]
  IN
  /\ th[t].pc = "wp_reap"
  /\ IF th[t].wr = "WAIT_CANCELED"
       THEN /\ sk' = [sk EXCEPT ![s].thr = "null", ![s].param = "null"]
            /\ wt' = [wt EXCEPT ![s].blk = IF sk[s].param = "blk" THEN Cfree(@) ELSE @]
            /\ th' = [th EXCEPT ![t].pc = "cancelled"]
       ELSE /\ sk' = [sk EXCEPT ![s] = ConnTail(r1, ret, eno)]
            /\ wt' = [wt EXCEPT ![s].blk = IF sk[s].param = "blk" THEN Cfree(@) ELSE @,
                                ![s].ev = IF sk[s].evt = "evt" THEN EvClose(@) ELSE @]
            /\ th' = Return(t, ret, eno)
  /\ UNCHANGED <<lk, links, files, inst>>

\* ------------------------------------------------------------------ wait_pipe_thread
\* entry of the waiter: a failing create_event leaves with error 0
WStart(s) ==
  /\ wt[s].pc = "w_start"
  /\ \/ wt' = [wt EXCEPT ![s].pc = "w_wait"]
     \/ wt' = [wt EXCEPT ![s].pc = "w_out", ![s].err = "0"]
  /\ UNCHANGED <<sk, lk, th, links, files, inst>>

\* FSCTL_PIPE_WAIT and the wait for its completion or for the termination
\* event
WWait(s) ==
  LET pn == wt[s].ppipe IN
  /\ wt[s].pc = "w_wait"
  /\ IF ~PipeExists(inst, pn)
       THEN wt' = [wt EXCEPT ![s].pc = "w_out", ![s].err = "EADDRNOTAVAIL"]
       ELSE IF ListeningInst(inst, pn) # {}
       THEN wt' = [wt EXCEPT ![s].pc = "w_open"]
       ELSE \/ \* the 20 seconds have passed
               wt' = [wt EXCEPT ![s].pc = "w_out", ![s].err = "ETIMEDOUT"]
            \/ \* the termination event is signalled, or is no valid handle
               /\ sk[s].evt = "null" \/ wt[s].ev \in {"signalled", "closed"}
               /\ wt' = [wt EXCEPT ![s].pc = "w_out", ![s].err = "EINTR"]
  /\ UNCHANGED <<sk, lk, th, links, files, inst>>

\* open_pipe in the waiter: connected, or the instance was taken by another
\* client (wait again, or time out), or the pipe is gone
WOpen(s) ==
  LET pn == wt[s].ppipe IN
  /\ wt[s].pc = "w_open"
  /\ IF ~PipeExists(inst, pn)
       THEN /\ wt' = [wt EXCEPT ![s].pc = "w_out", ![s].err = "ENOENT"]
            /\ UNCHANGED <<sk, inst>>
       ELSE IF ListeningInst(inst, pn) = {}
       THEN /\ \/ wt' = [wt EXCEPT ![s].pc = "w_wait"]
               \/ wt' = [wt EXCEPT ![s].pc = "w_out", ![s].err = "ETIMEDOUT"]
            /\ UNCHANGED <<sk, inst>>
       ELSE \E i \in ListeningInst(inst, pn) :
            /\ inst' = ClientOpen(inst, i)
            /\ sk' = [sk EXCEPT ![s].h = CliH(i)]
            /\ wt' = [wt EXCEPT ![s].pc = "w_smn_copy"]
  /\ UNCHANGED <<lk, th, links, files>>

\* WWait with the time it takes: FSCTL_PIPE_WAIT completes after d seconds,
\* within its timeout, when an instance is there to connect to, and with
\* STATUS_IO_TIMEOUT when the timeout has passed without one
WWaitTimed(s, d) ==
  LET pn == wt[s].ppipe IN
  /\ wt[s].pc = "w_wait"
  /\ d <= 0 - wt[s].tmo
  /\ IF ~PipeExists(inst, pn)
       THEN wt' = [wt EXCEPT ![s].pc = "w_out", ![s].err = "EADDRNOTAVAIL"]
       ELSE IF ListeningInst(inst, pn) # {}
       THEN wt' = [wt EXCEPT ![s].pc = "w_open", ![s].el = @ + d]
       ELSE \/ wt' = [wt EXCEPT ![s].pc = "w_out", ![s].err = "ETIMEDOUT",
                                ![s].el = @ - wt[s].tmo]
            \/ /\ sk[s].evt = "null" \/ wt[s].ev \in {"signalled", "closed"}
               /\ wt' = [wt EXCEPT ![s].pc = "w_out", ![s].err = "EINTR", ![s].el = @ + d]
  /\ UNCHANGED <<sk, lk, th, links, files, inst>>

\* WOpen with the timeout it computes when the instance was taken by another
\* client: Timeout -= (stamp - now), and ETIMEDOUT when the result is >= 0
WOpenTimed(s) ==
  LET pn == wt[s].ppipe
      timeout == wt[s].tmo - (0 - wt[s].el)
  IN
  /\ wt[s].pc = "w_open"
  /\ IF ~PipeExists(inst, pn)
       THEN /\ wt' = [wt EXCEPT ![s].pc = "w_out", ![s].err = "ENOENT"]
            /\ UNCHANGED <<sk, inst>>
       ELSE IF ListeningInst(inst, pn) = {}
       THEN /\ IF timeout >= 0
                 THEN wt' = [wt EXCEPT ![s].pc = "w_out", ![s].err = "ETIMEDOUT",
                                       ![s].tmo = timeout]
                 ELSE wt' = [wt EXCEPT ![s].pc = "w_wait", ![s].tmo = timeout]
            /\ UNCHANGED <<sk, inst>>
       ELSE \E i \in ListeningInst(inst, pn) :
            /\ inst' = ClientOpen(inst, i)
            /\ sk' = [sk EXCEPT ![s].h = CliH(i)]
            /\ wt' = [wt EXCEPT ![s].pc = "w_smn_copy"]
  /\ UNCHANGED <<lk, th, links, files>>

\* send_my_name in the waiter
WSmnCopy(s) ==
  /\ wt[s].pc = "w_smn_copy"
  /\ CanLockS(lk[s].bind)
  /\ wt' = [wt EXCEPT ![s].pc = "w_smn_write", ![s].pkt = SmnPacket(sk[s])]
  /\ UNCHANGED <<sk, lk, th, links, files, inst>>

WSmnSend(s) ==
  /\ wt[s].pc = "w_smn_write"
  /\ CanLockX(lk[s].io)
  /\ inst' = SmnWrite(inst, sk[s], wt[s].pkt)
  /\ wt' = [wt EXCEPT ![s].pc = "w_out", ![s].err = "0", ![s].pkt = <<>>]
  /\ UNCHANGED <<sk, lk, th, links, files>>

\* the label out of the waiter: the parameter block is taken and freed
WOut(s) ==
  /\ wt[s].pc = "w_out"
  /\ sk' = [sk EXCEPT ![s].param = "null"]
  /\ wt' = [wt EXCEPT ![s].pc = "w_fin", ![s].blk = IF sk[s].param = "blk" THEN Cfree(@) ELSE @]
  /\ UNCHANGED <<lk, th, links, files, inst>>

\* the conn_lock section at the end of the waiter, and its exit
WFin(s) ==
  /\ wt[s].pc = "w_fin"
  /\ CanLockX(lk[s].conn)
  /\ sk' = [sk EXCEPT ![s].so_error = wt[s].err,
                      ![s].unread = IF wt[s].err # "0" THEN 1 ELSE @,
                      ![s].cs = IF wt[s].err # "0" THEN "connect_failed" ELSE "connected"]
  /\ wt' = [wt EXCEPT ![s].pc = "done"]
  /\ UNCHANGED <<lk, th, links, files, inst>>

\* ------------------------------------------------------------------ listen
\* listen, up to AcquireSRWLockShared (&bind_lock)
ListenCall(t, s) ==
  /\ th[t].pc = "idle"
  /\ sk[s].st = "open"
  /\ IF sk[s].type = "dgram"
       THEN /\ th' = Done(t, [Call(t, "listen", s, NULLSUN) EXCEPT !.ret = -1, !.err = "EOPNOTSUPP"])
            /\ UNCHANGED lk
       ELSE /\ CanLockS(lk[s].bind)
            /\ lk' = [lk EXCEPT ![s].bind.sh = @ \cup {t}]
            /\ th' = [th EXCEPT ![t] = [Call(t, "listen", s, NULLSUN) EXCEPT !.pc = "listen_spin"]]
  /\ UNCHANGED <<sk, links, files, inst, wt>>

\* listen without the test for unbound behind the loop
ListenSpinAny(t) ==
  LET s == th[t].s IN
  /\ th[t].pc = "listen_spin"
  /\ sk[s].bs # "bind_pending"
  /\ lk' = [lk EXCEPT ![s].bind.sh = @ \ {t}]
  /\ th' = [th EXCEPT ![t].pc = "listen_conn"]
  /\ UNCHANGED <<sk, links, files, inst, wt>>

\* the loop on bind_pending is left, bind_lock is released
ListenSpin(t) ==
  LET s == th[t].s IN
  /\ th[t].pc = "listen_spin"
  /\ sk[s].bs # "bind_pending"
  /\ lk' = [lk EXCEPT ![s].bind.sh = @ \ {t}]
  /\ IF sk[s].bs = "unbound"
       THEN th' = Return(t, -1, "EDESTADDRREQ")
       ELSE th' = [th EXCEPT ![t].pc = "listen_conn"]
  /\ UNCHANGED <<sk, links, files, inst, wt>>

\* the conn_lock section of listen; when create_pipe fails the method
\* returns with conn_lock held
ListenConn(t) ==
  LET s == th[t].s IN
  /\ th[t].pc = "listen_conn"
  /\ CanLockX(lk[s].conn)
  /\ IF sk[s].cs \notin {"unconnected", "connect_failed"}
       THEN /\ th' = Return(t, -1, IF sk[s].cs = "listener" THEN "EADDRINUSE" ELSE "EINVAL")
            /\ UNCHANGED <<sk, lk, inst>>
       ELSE \/ \E i \in NewSlot :
                 /\ ~PipeExists(inst, sk[s].pname)
                 /\ inst' = [inst EXCEPT ![i] = NewInstance(sk[s].pname, sk[s].nb)]
                 /\ sk' = [sk EXCEPT ![s].h = SrvH(i), ![s].cs = "listener"]
                 /\ th' = Return(t, 0, "none")
                 /\ UNCHANGED lk
            \/ \* create_pipe failed and returned 0
               /\ sk' = [sk EXCEPT ![s].cs = "unconnected"]
               /\ lk' = [lk EXCEPT ![s].conn.x = t]
               /\ th' = Return(t, -1, "ENTSTATUS")
               /\ UNCHANGED inst
            \/ \* NtCreateNamedPipeFile failed, ph is not 0
               /\ sk' = [sk EXCEPT ![s].h = BadH, ![s].cs = "listener"]
               /\ th' = Return(t, 0, "none")
               /\ UNCHANGED <<lk, inst>>
  /\ UNCHANGED <<links, files, wt>>

\* ------------------------------------------------------------------ accept4
\* FSCTL_PIPE_DISCONNECT on the server end
Disconnect(I, h) ==
  IF NoH(h) \/ I[h[2]].st = "free" THEN I
  ELSE [I EXCEPT ![h[2]].st = "disconnected", ![h[2]].qs = <<>>, ![h[2]].qc = <<>>]

\* what accept4 copies to the caller: the peer name and its length
AcceptOut(r) ==
  IF r.peer = NULLSUN THEN [len |-> 0, fam |-> 0, path |-> <<>>] ELSE r.peer

\* the checks of accept4 and the start of listen_pipe
AcceptCall(t, s, nb, badlen) ==
  LET h == sk[s].h
      f == [Call(t, "accept", s, NULLSUN) EXCEPT !.wr = IF nb THEN "nb" ELSE "none"]
  IN
  /\ th[t].pc = "idle"
  /\ sk[s].st = "open"
  /\ IF sk[s].type # "stream"
       THEN /\ th' = Done(t, [f EXCEPT !.ret = -1, !.err = "EOPNOTSUPP"])
            /\ UNCHANGED inst
       ELSE IF sk[s].cs # "listener" \/ badlen
       THEN /\ th' = Done(t, [f EXCEPT !.ret = -1, !.err = "EINVAL"])
            /\ UNCHANGED inst
       ELSE IF NoH(h) \/ inst[h[2]].st = "free"
       THEN /\ th' = Done(t, [f EXCEPT !.ret = -1, !.err = "ENTSTATUS"])
            /\ UNCHANGED inst
       ELSE IF inst[h[2]].st = "connected"
       THEN /\ th' = [th EXCEPT ![t] = [f EXCEPT !.pc = "acc_swap"]]
            /\ UNCHANGED inst
       ELSE IF inst[h[2]].st = "closing"
       THEN /\ th' = Done(t, [f EXCEPT !.ret = -1, !.err = "ENTSTATUS"])
            /\ UNCHANGED inst
       ELSE /\ inst' = [inst EXCEPT ![h[2]].st = "listening"]
            /\ IF inst[h[2]].smode
                 THEN th' = Done(t, [f EXCEPT !.ret = -1, !.err = "EAGAIN"])
                 ELSE th' = [th EXCEPT ![t] = [f EXCEPT !.pc = "acc_wait", !.pipe = h]]
  /\ UNCHANGED <<sk, lk, links, files, wt>>

\* the pending FSCTL_PIPE_LISTEN completes because a client has connected;
\* listen_pipe accepts only STATUS_PIPE_CONNECTED as the final status
AcceptWait(t) ==
  LET h == th[t].pipe IN
  /\ th[t].pc = "acc_wait"
  /\ inst[h[2]].st \in {"connected", "closing"}
  /\ \/ th' = [th EXCEPT ![t].pc = "acc_swap", ![t].pipe = NULLH]
     \/ th' = Return(t, -1, "ENTSTATUS")
  /\ UNCHANGED <<sk, lk, links, files, inst, wt>>

\* an interrupted wait that disconnects the pipe instance on its way out
AcceptIntrDisconnect(t) ==
  /\ th[t].pc = "acc_wait"
  /\ inst' = Disconnect(inst, th[t].pipe)
  /\ th' = Return(t, -1, "EINTR")
  /\ UNCHANGED <<sk, lk, links, files, wt>>

\* cygwait in listen_pipe is interrupted by a signal
AcceptIntr(t) ==
  /\ th[t].pc = "acc_wait"
  /\ th' = Return(t, -1, "EINTR")
  /\ UNCHANGED <<sk, lk, links, files, inst, wt>>

\* the io_lock section of accept4: the connected handle is taken and a new
\* instance is installed in the listener
AcceptSwap(t) ==
  LET s == th[t].s IN
  /\ th[t].pc = "acc_swap"
  /\ CanLockX(lk[s].io)
  /\ \/ \E i \in NewSlot :
          /\ PipeExists(inst, sk[s].pname)
          /\ inst' = [inst EXCEPT ![i] = NewInstance(sk[s].pname, sk[s].nb)]
          /\ sk' = [sk EXCEPT ![s].h = SrvH(i)]
          /\ th' = [th EXCEPT ![t].pc = "acc_new", ![t].acc = sk[s].h, ![t].pipe = SrvH(i)]
     \/ \* create_pipe_instance failed and returned 0
        /\ th' = [th EXCEPT ![t].pc = "acc_fail", ![t].acc = sk[s].h, ![t].err = "ENOBUFS"]
        /\ UNCHANGED <<sk, inst>>
     \/ \* NtCreateNamedPipeFile failed, ph is not 0
        /\ sk' = [sk EXCEPT ![s].h = BadH]
        /\ th' = [th EXCEPT ![t].pc = "acc_new", ![t].acc = sk[s].h, ![t].pipe = BadH]
        /\ UNCHANGED inst
  /\ UNCHANGED <<lk, links, files, wt>>

\* cygheap_fdnew and build_fh_dev, and the set-up of the new socket object
AcceptNew(t) ==
  LET s == th[t].s IN
  /\ th[t].pc = "acc_new"
  /\ \/ \E n \in Socks :
          /\ sk[n].st = "free"
          /\ sk' = [sk EXCEPT ![n] =
                      [SetSunPath(NewSock(sk[s].type, th[t].wr = "nb"),
                                  IF sk[s].sun = NULLSUN THEN EmptySun ELSE sk[s].sun)
                         EXCEPT !.st = "new", !.cs = "connected", !.bs = sk[s].bs,
                                !.h = th[t].acc, !.pname = sk[s].pname]]
          /\ th' = [th EXCEPT ![t].pc = "acc_recv", ![t].ns = n]
     \/ /\ th' = [th EXCEPT ![t].pc = "acc_fail", ![t].err = "ENOBUFS"]
        /\ UNCHANGED sk
  /\ UNCHANGED <<lk, links, files, inst, wt>>

\* the name a packet carries, as recv_peer_name stores it
PktName(pkt) ==
  SunName([len |-> pkt.hdr.name_len, fam |-> pkt.name.fam, path |-> pkt.name.path])

\* recv_peer_name returned 0: the peer name is copied out and the descriptor
\* is returned, or the copy faults
AcceptDone(t, r, fault) ==
  LET n == th[t].ns IN
  IF fault
    THEN /\ sk' = [sk EXCEPT ![n] = FreeSock]
         /\ inst' = Disconnect(SetPipeMode(inst, th[t].acc, r.nb), th[t].acc)
         /\ th' = Return(t, -1, "EFAULT")
    ELSE /\ sk' = [sk EXCEPT ![n] = [r EXCEPT !.st = "open"]]
         /\ inst' = SetPipeMode([inst EXCEPT ![th[t].acc[2]].qs =
                                                 IF @ = <<>> THEN @ ELSE Tail(@)],
                                th[t].acc, r.nb)
         /\ th' = Done(t, [Return(t, 0, "none")[t] EXCEPT !.ns = n, !.out = AcceptOut(r)])

\* recv_peer_name failed: the new object is deleted, the client disconnected
AcceptAbort(t, err) ==
  /\ sk' = [sk EXCEPT ![th[t].ns] = FreeSock]
  /\ inst' = Disconnect(inst, th[t].acc)
  /\ th' = Return(t, -1, err)

\* recv_peer_name: NtReadFile finds the packet, or is pending, or fails
AcceptRecv(t) ==
  LET n == th[t].ns
      i == th[t].acc[2]
  IN
  /\ th[t].pc = "acc_recv"
  /\ \/ \* create_event failed
        AcceptAbort(t, "ENOBUFS")
     \/ \* NtReadFile on a value that is no handle
        /\ NoH(th[t].acc)
        /\ AcceptAbort(t, "EBADF")
     \/ /\ ~NoH(th[t].acc)
        /\ inst[i].qs # <<>>
        /\ \E fault \in BOOLEAN :
             AcceptDone(t, IF Head(inst[i].qs).hdr.name_len > 0
                             THEN SetPeerSunPath(sk[n], PktName(Head(inst[i].qs)))
                             ELSE sk[n], fault)
     \/ /\ ~NoH(th[t].acc)
        /\ inst[i].qs = <<>>
        /\ IF inst[i].st = "connected"
             THEN /\ th' = [th EXCEPT ![t].pc = "acc_rwait"]
                  /\ inst' = SetPipeMode(inst, th[t].acc, FALSE)
                  /\ UNCHANGED sk
             ELSE AcceptAbort(t, "EPIPE")
  /\ UNCHANGED <<lk, links, files, wt>>

\* what recv_peer_name finds in its packet buffer when nothing was read
\* into it: name_len is 0 (no name), or not, and then a name is made of the
\* bytes that follow
StaleNames ==
  {NULLSUN} \cup {SunName([len |-> SizeofFamily + 1, fam |-> j, path |-> <<j>>]) : j \in Junk}

\* the wait of recv_peer_name: the packet arrives, or the client goes away,
\* or the 20 seconds pass or a signal arrives.  In the last two cases the
\* error is stored in the ret of the inner block, status is still
\* STATUS_PENDING, which NT_SUCCESS accepts, and the ret that is returned
\* stays 0: the buffer is taken for a packet as it is
AcceptRecvWait(t) ==
  LET n == th[t].ns
      i == th[t].acc[2]
  IN
  /\ th[t].pc = "acc_rwait"
  /\ \/ /\ inst[i].qs # <<>>
        /\ \E fault \in BOOLEAN :
             AcceptDone(t, IF Head(inst[i].qs).hdr.name_len > 0
                             THEN SetPeerSunPath(sk[n], PktName(Head(inst[i].qs)))
                             ELSE sk[n], fault)
     \/ /\ inst[i].qs = <<>>
        /\ \E g \in StaleNames, fault \in BOOLEAN :
             AcceptDone(t, IF g = NULLSUN THEN sk[n] ELSE SetPeerSunPath(sk[n], g), fault)
     \/ /\ inst[i].qs = <<>>
        /\ inst[i].st # "connected"
        /\ AcceptAbort(t, "EPIPE")
  /\ UNCHANGED <<lk, links, files, wt>>

\* the end of accept4 when no socket is returned
AcceptFail(t) ==
  /\ th[t].pc = "acc_fail"
  /\ inst' = Disconnect(inst, th[t].acc)
  /\ th' = Return(t, -1, th[t].err)
  /\ UNCHANGED <<sk, lk, links, files, wt>>

\* ------------------------------------------------------------------ foreign clients
\* The pipe of a listener can be opened by any process.  What NtReadFile in
\* recv_peer_name delivers is then a message that send_my_name did not
\* build: a header with or without a name behind it, and a pckt_len that is
\* the sum of the lengths or is not.
PcktLens == {HdrSize, HdrSize + 4, HdrSize + 5}

ForeignPackets ==
  {[hdr |-> [PktInit(0, n, 0, 0) EXCEPT !.pckt_len = p],
    name |-> IF n = 0 THEN NULLSUN ELSE SunName(MkAddr(AF_UNIX, <<0, 97>>))] : n \in {0, 4}, p \in PcktLens}

\* a process opens a listening instance of the pipe and writes pkt to it
ForeignClient(i, pkt) ==
  /\ inst[i].st = "listening"
  /\ inst' = [ClientOpen(inst, i) EXCEPT ![i].qs = Append(@, pkt)]
  /\ UNCHANGED <<sk, lk, th, links, files, wt>>

\* ------------------------------------------------------------------ close
\* close, up to WaitForSingleObject on the waiter thread
CloseCall(t, s) ==
  /\ th[t].pc = "idle"
  /\ sk[s].st = "open"
  /\ Quiet(s)
  /\ sk' = [sk EXCEPT ![s].st = "closing", ![s].evt = "null", ![s].thr = "null"]
  /\ wt' = [wt EXCEPT ![s].ev = IF sk[s].thr # "null" /\ sk[s].evt = "evt" THEN EvSet(@) ELSE @]
  /\ th' = [th EXCEPT ![t] = [Call(t, "close", s, NULLSUN) EXCEPT
                                !.pc = IF sk[s].thr # "null" THEN "close_join" ELSE "close_fin",
                                !.wr = sk[s].evt]]
  /\ UNCHANGED <<lk, links, files, inst>>

\* the waiter thread has exited
CloseJoin(t) ==
  /\ th[t].pc = "close_join"
  /\ wt[th[t].s].pc = "done"
  /\ th' = [th EXCEPT ![t].pc = "close_fin"]
  /\ UNCHANGED <<sk, lk, links, files, inst, wt>>

\* the rest of close: event, parameter block, pipe handle and backing file
\* handle are closed; closing the last handle of a symbolic link object
\* removes the link, a reparse point stays in the file system.  When
\* cwt_param still points to a block that was freed, cfree is called on it a
\* second time: close goes on, or the heap check ends the process.
CloseFin(t) ==
  LET s == th[t].s IN
  /\ th[t].pc = "close_fin"
  /\ \/ /\ inst' = CloseH(inst, sk[s].h)
        /\ links' = IF sk[s].bfh = "link" THEN {l \in links : l.owner # s} ELSE links
        /\ sk' = [sk EXCEPT ![s] = ClosedSock]
        /\ lk' = [lk EXCEPT ![s] = [bind |-> NoLock, conn |-> NoLock, io |-> NoLock]]
        /\ wt' = [wt EXCEPT ![s] = NoWaiter]
        /\ th' = Return(t, 0, "none")
     \/ /\ sk[s].param = "blk" /\ Cfree(wt[s].blk) = "freed twice"
        /\ wt' = [wt EXCEPT ![s].blk = Cfree(@)]
        /\ sk' = [sk EXCEPT ![s].param = "null"]
        /\ th' = [th EXCEPT ![t].pc = "abort"]
        /\ UNCHANGED <<lk, links, inst>>
  /\ UNCHANGED files

\* ------------------------------------------------------------------ getsockopt
\* getsockopt (SOL_SOCKET, SO_ERROR): InterlockedExchange (&so_error, 0)
GetSockOpt(t, s) ==
  /\ th[t].pc = "idle"
  /\ sk[s].st = "open"
  /\ sk' = [sk EXCEPT ![s].so_error = "0",
                      ![s].unread = IF sk[s].so_error # "0" THEN @ - 1 ELSE @]
  /\ th' = Done(t, [Call(t, "getsockopt", s, NULLSUN) EXCEPT !.out = <<sk[s].so_error>>])
  /\ UNCHANGED <<lk, links, files, inst, wt>>

\* ------------------------------------------------------------------ getsockname, getpeername
Bytes16(n) == <<n % 256, (n \div 256) % 256>>
Bytes32(n) == <<n % 256, (n \div 256) % 256, (n \div 65536) % 256, (n \div 16777216) % 256>>
Le32(b) == b[1] + 256 * b[2] + 65536 * b[3] + 16777216 * b[4]

\* ------------------------------------------------------------------ packet layout
\* af_unix_pkt_hdr_t as the bytes of the packet buffer, in the order of the
\* class: pckt_len, shut_info, name_len, cmsg_len, data_len
HdrBytes(h) ==
  Bytes16(h.pckt_len) \o <<h.shut_info, h.name_len>> \o Bytes16(h.cmsg_len) \o Bytes16(h.data_len)

\* the header a reader finds at the start of a packet buffer
HdrOf(buf) ==
  [pckt_len |-> buf[1] + 256 * buf[2], shut_info |-> buf[3], name_len |-> buf[4],
   cmsg_len |-> buf[5] + 256 * buf[6], data_len |-> buf[7] + 256 * buf[8]]

\* AF_UNIX_PKT_OFFSETOF_NAME, AF_UNIX_PKT_OFFSETOF_CMSG, AF_UNIX_PKT_OFFSETOF_DATA
PktOffsetof(h, part) ==
  IF part = "name" THEN HdrSize
  ELSE IF part = "cmsg" THEN HdrSize + h.name_len
  ELSE HdrSize + h.name_len + h.cmsg_len

\* a packet is built from a name, ancillary data and user data: the header
\* is initialised with their lengths and the three blocks follow it in this
\* order.  pkt keeps what went in, out is the packet buffer
PktBuild(t, name, cmsg, data) ==
  /\ th[t].pc = "idle"
  /\ th' = Done(t, [IdleFrame EXCEPT
                      !.op = "packet",
                      !.pkt = [name |-> name, cmsg |-> cmsg, data |-> data],
                      !.out = HdrBytes(PktInit(0, Len(name), Len(cmsg), Len(data)))
                                \o name \o cmsg \o data])
  /\ UNCHANGED <<sk, lk, links, files, inst, wt>>

\* the first un_len bytes of the member un of a name object
UnBytes(sun) == SubSeq(Bytes16(sun.fam) \o sun.path, 1, Min(sun.len, SizeofFamily + Len(sun.path)))

\* memcpy (dst, src, n) on byte sequences, n <= Len(src)
Memcpy(dst, src, n) == [k \in 1 .. Len(dst) |-> IF k <= n THEN src[k] ELSE dst[k]]

\* the local sun_name_t of the getters after its constructor, as bytes from
\* the address of the object on: un_len and un in the order of the class
\* declaration, the bytes the constructor does not write hold j
SunObject(layout, j) ==
  IF layout = "len_first"
    THEN Bytes32(SizeofFamily) \o Bytes16(AF_UNIX) \o [k \in 1 .. SunCap - SizeofFamily |-> j]
    ELSE Bytes16(AF_UNIX) \o [k \in 1 .. SunCap - SizeofFamily |-> j] \o Bytes32(SizeofFamily)

\* sun.un_len read back from the object
SunObjectLen(layout, obj) ==
  IF layout = "len_first" THEN Le32(SubSeq(obj, 1, 4)) ELSE Le32(SubSeq(obj, SunCap + 1, SunCap + 4))

\* getsockname and getpeername on the name pointer p with a buffer of cap
\* bytes: the name is copied to the address of the local object, the local
\* object is copied out from its address on
GetName(p, cap, layout, j) ==
  IF p = NULLSUN THEN [len |-> 0, bytes |-> <<>>]
  ELSE LET obj == Memcpy(SunObject(layout, j), UnBytes(p), Len(UnBytes(p)))
           n   == SunObjectLen(layout, obj)
       IN  [len |-> n, bytes |-> SubSeq(obj, 1, Min(Min(cap, n), Len(obj)))]

GetSockName(t, s, layout, j) ==
  /\ th[t].pc = "idle"
  /\ sk[s].st = "open"
  /\ th' = Done(t, [Call(t, "getsockname", s, NULLSUN) EXCEPT
                         !.out = GetName(sk[s].sun, SunCap, layout, j)])
  /\ UNCHANGED <<sk, lk, links, files, inst, wt>>

\* peer_sun_path may point to a deleted object: what is read then is j
GetPeerName(t, s, layout, j) ==
  /\ th[t].pc = "idle"
  /\ sk[s].st = "open"
  /\ th' = Done(t, [Call(t, "getpeername", s, NULLSUN) EXCEPT
                         !.out = IF sk[s].pfreed
                                   THEN [len |-> j, bytes |-> <<>>]
                                   ELSE GetName(sk[s].peer, SunCap, layout, j)])
  /\ UNCHANGED <<sk, lk, links, files, inst, wt>>

\* ------------------------------------------------------------------ ioctl, fcntl
\* O_NONBLOCK_MASK, and the flags F_SETFL lets through
NonblockMask == {"O_NONBLOCK", "OLD_O_NDELAY"}
AllowedFlags == {"O_APPEND"} \cup NonblockMask

\* is_nonblocking
IsNonblocking(fl) == fl \cap NonblockMask # {}

\* set_nonblocking (yes): a non-blocking bit that is set is kept, none set
\* gives O_NONBLOCK, and no clears both
SetNonblocking(fl, yes) ==
  LET current == fl \cap NonblockMask IN
  (fl \ NonblockMask) \cup (IF yes THEN (IF current = {} THEN {"O_NONBLOCK"} ELSE current)
                                   ELSE {})

\* the flags F_SETFL stores for arg: the allowed ones, OLD_O_NDELAY dropped
\* when O_NONBLOCK is given as well
SetFl(fl, arg) ==
  LET allowed   == arg \cap AllowedFlags
      new_flags == IF "OLD_O_NDELAY" \in allowed /\ "O_NONBLOCK" \in allowed
                     THEN allowed \ {"OLD_O_NDELAY"} ELSE allowed
  IN  (fl \ AllowedFlags) \cup new_flags

\* the end of FIONBIO and F_SETFL with the call of set_pipe_non_blocking
\* made in any case
FlagsStoreAlways(t, s, op, nf) ==
  LET now_nonblocking == IsNonblocking(nf) IN
  /\ sk' = [sk EXCEPT ![s].fl = nf, ![s].nb = now_nonblocking]
  /\ inst' = SetPipeMode(inst, sk[s].h, now_nonblocking)
  /\ th' = Done(t, [Call(t, op, s, NULLSUN) EXCEPT !.out = <<now_nonblocking>>])

\* the common end of FIONBIO and F_SETFL: the flags are stored, and
\* set_pipe_non_blocking is called when is_nonblocking () has changed; out
\* lists the calls of set_pipe_non_blocking
FlagsStore(t, s, op, nf) ==
  LET was_nonblocking == IsNonblocking(sk[s].fl)
      now_nonblocking == IsNonblocking(nf)
  IN
  /\ sk' = [sk EXCEPT ![s].fl = nf, ![s].nb = now_nonblocking]
  /\ IF was_nonblocking # now_nonblocking
       THEN /\ inst' = SetPipeMode(inst, sk[s].h, now_nonblocking)
            /\ th' = Done(t, [Call(t, op, s, NULLSUN) EXCEPT !.out = <<now_nonblocking>>])
       ELSE /\ UNCHANGED inst
            /\ th' = Done(t, [Call(t, op, s, NULLSUN) EXCEPT !.out = <<>>])

\* the commands of ioctl and fcntl the class handles itself
IoctlCmds == {"FIOASYNC", "FIONREAD", "FIONBIO", "SIOCATMARK"}
FcntlCmds == {"F_SETOWN", "F_GETOWN", "F_SETFL"}

\* ioctl (cmd, p) with *p = v: FIONREAD runs into the case of FIONBIO,
\* FIOASYNC and SIOCATMARK return -1
Ioctl(t, s, cmd, v) ==
  /\ th[t].pc = "idle"
  /\ sk[s].st = "open"
  /\ IF cmd \in {"FIONREAD", "FIONBIO"}
       THEN FlagsStore(t, s, cmd, SetNonblocking(sk[s].fl, v # 0))
       ELSE /\ th' = Done(t, [Call(t, cmd, s, NULLSUN) EXCEPT !.ret = -1])
            /\ UNCHANGED <<sk, inst>>
  /\ UNCHANGED <<lk, links, files, wt>>

\* fcntl (cmd, arg): F_SETFL stores the flags, F_SETOWN and F_GETOWN
\* return -1
Fcntl(t, s, cmd, arg) ==
  /\ th[t].pc = "idle"
  /\ sk[s].st = "open"
  /\ IF cmd = "F_SETFL"
       THEN FlagsStore(t, s, cmd, SetFl(sk[s].fl, arg))
       ELSE /\ th' = Done(t, [Call(t, cmd, s, NULLSUN) EXCEPT !.ret = -1])
            /\ UNCHANGED <<sk, inst>>
  /\ UNCHANGED <<lk, links, files, wt>>

\* ------------------------------------------------------------------ inputs
\* the addresses the callers pass: unnamed, the abstract name of length 3,
\* an abstract name, a pathname (with its NUL), a name of another family
NUnnamed == MkAddr(AF_UNIX, <<>>)
NAbs3    == MkAddr(AF_UNIX, <<0>>)
NAbs     == MkAddr(AF_UNIX, <<0, 97>>)
NPath    == MkAddr(AF_UNIX, <<115, 0>>)
NOther   == MkAddr(AF_OTHER, <<115, 0>>)
Names    == {NUnnamed, NAbs3, NAbs, NPath, NOther}
Types    == {"stream", "dgram"}
Layouts  == {"len_first", "un_first"}

\* ------------------------------------------------------------------ specifications
\* SpecBind: two sockets of either type are bound, by two threads, to any of
\* the names, and closed
BindSocks == {"s1", "s2"}

NextBind ==
  \/ \E s \in BindSocks, type \in Types : Socket(s, type, FALSE)
  \/ \E t \in Threads, s \in BindSocks, a \in Names : BindCall(t, s, a)
  \/ \E t \in Threads : BindPipe(t)
  \/ \E t \in Threads : BindFile(t)
  \/ \E t \in Threads : BindName(t)
  \/ \E t \in Threads, s \in BindSocks : CloseCall(t, s)
  \/ \E t \in Threads : CloseFin(t)

SpecBind == Init /\ [][NextBind]_vars

\* SpecName: one socket is bound and asked for its name
NextName ==
  \/ \E type \in Types : Socket("s1", type, FALSE)
  \/ \E t \in Threads, a \in Names : BindCall(t, "s1", a)
  \/ \E t \in Threads : BindPipe(t)
  \/ \E t \in Threads : BindFile(t)
  \/ \E t \in Threads : BindName(t)
  \/ \E t \in Threads, l \in Layouts, j \in Junk : GetSockName(t, "s1", l, j)
  \/ \E t \in Threads : CloseCall(t, "s1")
  \/ \E t \in Threads : CloseFin(t)

SpecName == Init /\ [][NextName]_vars

\* SpecConn: s1 is bound to a pathname, s2 connects to any of the names
NextConn ==
  \/ \E s \in {"s1", "s2"}, type \in Types : Socket(s, type, FALSE)
  \/ \E t \in Threads : BindCall(t, "s1", NPath)
  \/ \E t \in Threads : BindPipe(t)
  \/ \E t \in Threads : BindFile(t)
  \/ \E t \in Threads : BindName(t)
  \/ \E t \in Threads, a \in Names : ConnCall(t, "s2", a)
  \/ \E t \in Threads : ConnCheck(t)
  \/ \E t \in Threads : ConnOpen(t)
  \/ \E t \in Threads, s \in {"s1", "s2"} : CloseCall(t, s)
  \/ \E t \in Threads : CloseFin(t)

SpecConn == Init /\ [][NextConn]_vars

\* SpecListen: s1 and s2 are bound, s2 connects to s1, both are listened on
NextListen ==
  \/ \E s \in {"s1", "s2"}, type \in Types : Socket(s, type, FALSE)
  \/ \E t \in Threads : BindCall(t, "s1", NPath)
  \/ \E t \in Threads : BindCall(t, "s2", NAbs)
  \/ \E t \in Threads : BindPipe(t)
  \/ \E t \in Threads : BindFile(t)
  \/ \E t \in Threads : BindName(t)
  \/ \E t \in Threads : ConnCall(t, "s2", NPath)
  \/ \E t \in Threads : ConnCheck(t)
  \/ \E t \in Threads : ConnOpen(t)
  \/ \E t \in Threads : SmnCopy(t)
  \/ \E t \in Threads : SmnSend(t)
  \/ \E t \in Threads, s \in {"s1", "s2"} : ListenCall(t, s)
  \/ \E t \in Threads : ListenSpin(t)
  \/ \E t \in Threads : ListenConn(t)
  \/ \E t \in Threads, s \in {"s1", "s2"} : CloseCall(t, s)
  \/ \E t \in Threads : CloseFin(t)

SpecListen == Init /\ [][NextListen]_vars

\* SpecSpin: as SpecListen, with the scheduler's guarantee that a thread
\* inside bind or inside listen which can take its next step takes it.
\* yield () in the loop of listen gives the processor to the binding thread
SpecSpin ==
  /\ Init /\ [][NextListen]_vars
  /\ \A t \in Threads :
       /\ WF_vars(BindPipe(t) \/ BindFile(t) \/ BindName(t) \/ SmnCopy(t) \/ SmnSend(t))
       /\ WF_vars(ListenSpin(t) \/ ListenConn(t))

\* SpecRace: s1 listens on a pathname, s3 takes its only pipe instance, and
\* both threads call connect on the blocking stream socket s2, which has to
\* wait for an instance
NextRace ==
  \/ \E s \in Socks : Socket(s, "stream", FALSE)
  \/ \E t \in Threads : BindCall(t, "s1", NPath)
  \/ \E t \in Threads : BindPipe(t)
  \/ \E t \in Threads : BindFile(t)
  \/ \E t \in Threads : BindName(t)
  \/ \E t \in Threads : ListenCall(t, "s1")
  \/ \E t \in Threads : ListenSpin(t)
  \/ \E t \in Threads : ListenConn(t)
  \/ \E t \in Threads, s \in Socks : ConnCall(t, s, NPath)
  \/ \E t \in Threads : ConnCheck(t)
  \/ \E t \in Threads : ConnOpen(t)
  \/ \E t \in Threads : SmnCopy(t)
  \/ \E t \in Threads : SmnSend(t)
  \/ \E t \in Threads : WpStart(t)
  \/ \E t \in Threads : WpWaitDone(t)
  \/ \E t \in Threads : WpWaitIntr(t)
  \/ \E t \in Threads : WpJoin(t)
  \/ \E t \in Threads : WpReap(t)
  \/ \E s \in Socks : WStart(s)
  \/ \E s \in Socks : WWait(s)
  \/ \E s \in Socks : WOut(s)
  \/ \E s \in Socks : WFin(s)

SpecRace == Init /\ [][NextRace]_vars

\* Spec: s1 listens on a pathname, s2 connects to it, both threads accept
\* on s1; the accepted socket is s3
Next ==
  \/ \E s \in {"s1", "s2"} : Socket(s, "stream", FALSE)
  \/ \E t \in Threads : BindCall(t, "s1", NPath)
  \/ \E t \in Threads : BindPipe(t)
  \/ \E t \in Threads : BindFile(t)
  \/ \E t \in Threads : BindName(t)
  \/ \E t \in Threads : ListenCall(t, "s1")
  \/ \E t \in Threads : ListenSpin(t)
  \/ \E t \in Threads : ListenConn(t)
  \/ \E t \in Threads : ConnCall(t, "s2", NPath)
  \/ \E t \in Threads : ConnCheck(t)
  \/ \E t \in Threads : ConnOpen(t)
  \/ \E t \in Threads : SmnCopy(t)
  \/ \E t \in Threads : SmnSend(t)
  \/ \E t \in Threads, nb, badlen \in BOOLEAN : AcceptCall(t, "s1", nb, badlen)
  \/ \E t \in Threads : AcceptWait(t)
  \/ \E t \in Threads : AcceptIntr(t)
  \/ \E t \in Threads : AcceptSwap(t)
  \/ \E t \in Threads : AcceptNew(t)
  \/ \E t \in Threads : AcceptRecv(t)
  \/ \E t \in Threads : AcceptRecvWait(t)
  \/ \E t \in Threads : AcceptFail(t)
  \/ \E t \in Threads, s \in Socks : CloseCall(t, s)
  \/ \E t \in Threads : CloseFin(t)

Spec == Init /\ [][Next]_vars

\* SpecPeer: s1 listens on a pathname; s2, unbound or bound to an abstract
\* name, connects to it; s3 is the accepted socket; the sockets are asked
\* for their names
NextPeer ==
  \/ \E s \in {"s1", "s2"} : Socket(s, "stream", FALSE)
  \/ BindCall("t1", "s1", NPath)
  \/ BindCall("t2", "s2", NAbs)
  \/ \E t \in Threads : BindPipe(t)
  \/ \E t \in Threads : BindFile(t)
  \/ \E t \in Threads : BindName(t)
  \/ ListenCall("t1", "s1")
  \/ ListenSpin("t1")
  \/ ListenConn("t1")
  \/ ConnCall("t2", "s2", NPath)
  \/ ConnCheck("t2")
  \/ ConnOpen("t2")
  \/ SmnCopy("t2")
  \/ SmnSend("t2")
  \/ AcceptCall("t1", "s1", FALSE, FALSE)
  \/ AcceptWait("t1")
  \/ AcceptSwap("t1")
  \/ AcceptNew("t1")
  \/ AcceptRecv("t1")
  \/ AcceptRecvWait("t1")
  \/ AcceptFail("t1")
  \/ \E s \in Socks, l \in Layouts, j \in Junk : GetSockName("t1", s, l, j)
  \/ \E s \in Socks, l \in Layouts, j \in Junk : GetPeerName("t1", s, l, j)

SpecPeer == Init /\ [][NextPeer]_vars

\* SpecWait: t1 binds s1 to a pathname, listens and accepts on it; t2
\* connects s3, which takes the pipe instance, and s2, blocking or not, which
\* has to wait for one; SO_ERROR of s2 is read and s2 is closed
NextWait ==
  \/ \E s \in {"s1", "s3"} : Socket(s, "stream", FALSE)
  \/ \E nb \in BOOLEAN : Socket("s2", "stream", nb)
  \/ BindCall("t1", "s1", NPath)
  \/ BindPipe("t1")
  \/ BindFile("t1")
  \/ BindName("t1")
  \/ ListenCall("t1", "s1")
  \/ ListenSpin("t1")
  \/ ListenConn("t1")
  \/ AcceptCall("t1", "s1", FALSE, FALSE)
  \/ AcceptWait("t1")
  \/ AcceptSwap("t1")
  \/ AcceptNew("t1")
  \/ AcceptRecv("t1")
  \/ AcceptRecvWait("t1")
  \/ AcceptFail("t1")
  \/ \E s \in {"s2", "s3"} : ConnCall("t2", s, NPath)
  \/ ConnCheck("t2")
  \/ ConnOpen("t2")
  \/ SmnCopy("t2")
  \/ SmnSend("t2")
  \/ WpStart("t2")
  \/ WpOut("t2")
  \/ WpWaitDone("t2")
  \/ WpWaitIntr("t2")
  \/ WpWaitCancel("t2")
  \/ WpJoin("t2")
  \/ WpReap("t2")
  \/ \E s \in Socks : WStart(s)
  \/ \E s \in Socks : WWait(s)
  \/ \E s \in Socks : WOpen(s)
  \/ \E s \in Socks : WSmnCopy(s)
  \/ \E s \in Socks : WSmnSend(s)
  \/ \E s \in Socks : WOut(s)
  \/ \E s \in Socks : WFin(s)
  \/ \E t \in Threads : GetSockOpt(t, "s2")
  \/ \E t \in Threads : CloseCall(t, "s2")
  \/ \E t \in Threads : CloseJoin(t)
  \/ \E t \in Threads : CloseFin(t)

SpecWait == Init /\ [][NextWait]_vars

\* SpecLive: as SpecWait, with s2 and s3 non-blocking and without signals,
\* and with the scheduler's guarantee that a thread which can take its next
\* step inside a method takes it: the waiter threads, the steps of connect
\* behind its gate, the steps of accept once a client has connected, and the
\* steps of close.  Calls are inputs and come or not.
NextLive ==
  \/ Socket("s1", "stream", FALSE)
  \/ \E s \in {"s2", "s3"} : Socket(s, "stream", TRUE)
  \/ BindCall("t1", "s1", NPath)
  \/ BindPipe("t1")
  \/ BindFile("t1")
  \/ BindName("t1")
  \/ ListenCall("t1", "s1")
  \/ ListenSpin("t1")
  \/ ListenConn("t1")
  \/ AcceptCall("t1", "s1", FALSE, FALSE)
  \/ AcceptWait("t1")
  \/ AcceptSwap("t1")
  \/ AcceptNew("t1")
  \/ AcceptRecv("t1")
  \/ AcceptRecvWait("t1")
  \/ AcceptFail("t1")
  \/ \E s \in {"s2", "s3"} : ConnCall("t2", s, NPath)
  \/ ConnCheck("t2")
  \/ ConnOpen("t2")
  \/ SmnCopy("t2")
  \/ SmnSend("t2")
  \/ WpStart("t2")
  \/ WpOut("t2")
  \/ \E s \in Socks : WStart(s)
  \/ \E s \in Socks : WWait(s)
  \/ \E s \in Socks : WOpen(s)
  \/ \E s \in Socks : WSmnCopy(s)
  \/ \E s \in Socks : WSmnSend(s)
  \/ \E s \in Socks : WOut(s)
  \/ \E s \in Socks : WFin(s)
  \/ GetSockOpt("t2", "s2")
  \/ CloseCall("t2", "s2")
  \/ CloseJoin("t2")
  \/ CloseFin("t2")

WaiterStep(s) ==
  WStart(s) \/ WWait(s) \/ WOpen(s) \/ WSmnCopy(s) \/ WSmnSend(s) \/ WOut(s) \/ WFin(s)

ConnectStep(t) ==
  ConnCheck(t) \/ ConnOpen(t) \/ SmnCopy(t) \/ SmnSend(t) \/ WpStart(t) \/ WpOut(t)

AcceptStep(t) ==
  AcceptWait(t) \/ AcceptSwap(t) \/ AcceptNew(t) \/ AcceptRecv(t) \/ AcceptRecvWait(t) \/ AcceptFail(t)

CloseStep(t) == CloseJoin(t) \/ CloseFin(t)

SpecLive ==
  /\ Init /\ [][NextLive]_vars
  /\ \A s \in Socks : WF_vars(WaiterStep(s))
  /\ WF_vars(ConnectStep("t2"))
  /\ WF_vars(AcceptStep("t1"))
  /\ WF_vars(CloseStep("t2"))

\* SpecFlags: thread t1 sets the flags of s1 and s2 with ioctl and fcntl
\* while thread t2 binds s1, listens on it and connects s2 to it
FlagSocks == {"s1", "s2"}
FlagValues == {0, 1, 2}
FlagArgs ==
  {{}, {"O_APPEND"}, {"O_NONBLOCK"}, {"OLD_O_NDELAY"}, {"O_NONBLOCK", "OLD_O_NDELAY"},
   {"O_APPEND", "OLD_O_NDELAY", "O_SYNC"}}

NextFlags ==
  \/ \E s \in FlagSocks, nb \in BOOLEAN : Socket(s, "stream", nb)
  \/ BindCall("t2", "s1", NPath)
  \/ BindPipe("t2")
  \/ BindFile("t2")
  \/ BindName("t2")
  \/ ListenCall("t2", "s1")
  \/ ListenSpin("t2")
  \/ ListenConn("t2")
  \/ ConnCall("t2", "s2", NPath)
  \/ ConnCheck("t2")
  \/ ConnOpen("t2")
  \/ SmnCopy("t2")
  \/ SmnSend("t2")
  \/ \E s \in FlagSocks, cmd \in IoctlCmds, v \in FlagValues : Ioctl("t1", s, cmd, v)
  \/ \E s \in FlagSocks, arg \in FlagArgs : Fcntl("t1", s, "F_SETFL", arg)
  \/ \E s \in FlagSocks, cmd \in FcntlCmds \ {"F_SETFL"} : Fcntl("t1", s, cmd, {})

SpecFlags == Init /\ [][NextFlags]_vars

\* SpecPkt: thread t1 binds s1, listens and accepts; the clients are socket
\* s2, connected by thread t2, and processes that write packets of their own
NextPkt ==
  \/ \E s \in {"s1", "s2"} : Socket(s, "stream", FALSE)
  \/ BindCall("t1", "s1", NPath)
  \/ BindPipe("t1")
  \/ BindFile("t1")
  \/ BindName("t1")
  \/ ListenCall("t1", "s1")
  \/ ListenSpin("t1")
  \/ ListenConn("t1")
  \/ ConnCall("t2", "s2", NPath)
  \/ ConnCheck("t2")
  \/ ConnOpen("t2")
  \/ SmnCopy("t2")
  \/ SmnSend("t2")
  \/ \E i \in InstIds, pkt \in ForeignPackets : ForeignClient(i, pkt)
  \/ AcceptCall("t1", "s1", FALSE, FALSE)
  \/ AcceptWait("t1")
  \/ AcceptSwap("t1")
  \/ AcceptNew("t1")
  \/ AcceptRecv("t1")
  \/ AcceptRecvWait("t1")
  \/ AcceptFail("t1")

SpecPkt == Init /\ [][NextPkt]_vars

\* SpecMode: thread t2 binds s1, listens on it and connects s2 to it, with
\* the io_lock section of send_my_name taken step by step, while thread t1
\* sets the flags of s2 with ioctl and fcntl
NextMode ==
  \/ Socket("s1", "stream", FALSE)
  \/ \E nb \in BOOLEAN : Socket("s2", "stream", nb)
  \/ BindCall("t2", "s1", NPath)
  \/ BindPipe("t2")
  \/ BindFile("t2")
  \/ BindName("t2")
  \/ ListenCall("t2", "s1")
  \/ ListenSpin("t2")
  \/ ListenConn("t2")
  \/ ConnCall("t2", "s2", NPath)
  \/ ConnCheck("t2")
  \/ ConnOpen("t2")
  \/ SmnCopy("t2")
  \/ SmnSendRead("t2")
  \/ SmnRestore("t2")
  \/ \E v \in FlagValues : Ioctl("t1", "s2", "FIONBIO", v)
  \/ \E arg \in FlagArgs : Fcntl("t1", "s2", "F_SETFL", arg)

SpecMode == Init /\ [][NextMode]_vars

\* SpecTime: thread t1 binds s1, listens and accepts; other processes take
\* the pipe instances; thread t2 connects the non-blocking socket s2, whose
\* waiter has to wait for an instance, and its waits take 6 or 9 seconds
NextTime ==
  \/ Socket("s1", "stream", FALSE)
  \/ Socket("s2", "stream", TRUE)
  \/ BindCall("t1", "s1", NPath)
  \/ BindPipe("t1")
  \/ BindFile("t1")
  \/ BindName("t1")
  \/ ListenCall("t1", "s1")
  \/ ListenSpin("t1")
  \/ ListenConn("t1")
  \/ AcceptCall("t1", "s1", FALSE, FALSE)
  \/ AcceptWait("t1")
  \/ AcceptSwap("t1")
  \/ AcceptNew("t1")
  \/ AcceptRecv("t1")
  \/ AcceptRecvWait("t1")
  \/ AcceptFail("t1")
  \/ \E i \in InstIds : ForeignClient(i, [hdr |-> PktInit(0, 0, 0, 0), name |-> NULLSUN])
  \/ ConnCall("t2", "s2", NPath)
  \/ ConnCheck("t2")
  \/ ConnOpen("t2")
  \/ SmnCopy("t2")
  \/ SmnSend("t2")
  \/ WpStart("t2")
  \/ WpOut("t2")
  \/ WStart("s2")
  \/ \E d \in {6, 9} : WWaitTimed("s2", d)
  \/ WOpenTimed("s2")
  \/ WSmnCopy("s2")
  \/ WSmnSend("s2")
  \/ WOut("s2")
  \/ WFin("s2")

SpecTime == Init /\ [][NextTime]_vars

\* SpecAccept: thread t1 binds s1 and listens; both threads accept on s1 at
\* the same time; the clients are other processes, which send a name as they
\* connect; s2 and s3 are the sockets accept returns
NextAccept ==
  \/ Socket("s1", "stream", FALSE)
  \/ BindCall("t1", "s1", NPath)
  \/ BindPipe("t1")
  \/ BindFile("t1")
  \/ BindName("t1")
  \/ ListenCall("t1", "s1")
  \/ ListenSpin("t1")
  \/ ListenConn("t1")
  \/ \E i \in InstIds : ForeignClient(i, [hdr |-> PktInit(0, 4, 0, 0), name |-> SunName(NAbs)])
  \/ \E t \in Threads : AcceptCall(t, "s1", FALSE, FALSE)
  \/ \E t \in Threads : AcceptWait(t)
  \/ \E t \in Threads : AcceptSwap(t)
  \/ \E t \in Threads : AcceptNew(t)
  \/ \E t \in Threads : AcceptRecv(t)
  \/ \E t \in Threads : AcceptFail(t)

SpecAccept == Init /\ [][NextAccept]_vars

\* SpecHdr: packets are built from blocks of every length class, up to the
\* largest packet and past it
NextHdr ==
  LET Block(n, k) == [i \in 1 .. n |-> (i + k) % 256] IN
  \E t \in Threads, n \in {0, 3, 110, 255}, c \in {0, 1, 300},
     d \in {0, 1, 4000, 65512 - 255, 65512} :
    PktBuild(t, Block(n, 10), Block(c, 20), Block(d, 30))

SpecHdr == Init /\ [][NextHdr]_vars

\* ------------------------------------------------------------------ claims
\* a call of bind that got past its first lock section returns in this step
BindReturns(t) == th[t].op = "bind" /\ th[t].pc # "idle" /\ th'[t].pc = "idle"

\* where such a bind ends: bound when the backing object exists, else unbound
\* and, for a datagram socket, without pipe handle and with the pipe of this
\* attempt closed
BindOutcome(t) ==
  LET s == th[t].s IN
  IF sk'[s].bfh # "null"
    THEN th'[t].ret = 0 /\ sk'[s].bs = "bound"
    ELSE /\ th'[t].ret = -1
         /\ sk'[s].bs = "unbound"
         /\ sk[s].type = "dgram" =>
              /\ sk'[s].h = NULLH
              /\ ~NoH(th[t].pipe) => inst'[th[t].pipe[2]].st = "free"

\* thread t has made a call of op that returned in the same step
Answered(t, op) ==
  /\ th[t].pc = "idle" /\ th'[t].pc = "idle"
  /\ th'[t] # th[t] /\ th'[t].op = op

\* what bind answers on a socket that is bind_pending or bound; anyFamily
\* says whether addresses of another family than AF_UNIX are included
BindGate(anyFamily) ==
  \A t \in Threads :
    Answered(t, "bind") =>
      \A a \in Names :
        BindCall(t, th'[t].s, a) =>
          /\ (sk[th'[t].s].bs = "bind_pending" /\ (anyFamily \/ SunName(a).fam = AF_UNIX)) =>
               (th'[t].ret = -1 /\ th'[t].err = "EALREADY" /\ sk' = sk)
          /\ sk[th'[t].s].bs = "bound" =>
               (th'[t].ret = -1 /\ th'[t].err = "EINVAL" /\ sk' = sk)

NameOut(sun) == [len |-> sun.len, bytes |-> UnBytes(sun)]

\* the names autobind makes
IsAutoName(sun) == \E id \in AutoIds : sun = SunName(AutoName(id))

\* C2: getsockname on a socket bound to a name the caller chose returns the
\* bytes and the length passed to bind.
C2_SockNameRoundTrip ==
  [][\A t \in Threads :
       (/\ Answered(t, "getsockname")
        /\ sk[th'[t].s].bs = "bound"
        /\ ~IsAutoName(sk[th'[t].s].sun))
         => th'[t].out = NameOut(sk[th'[t].s].sun)]_vars

\* what getsockname and getpeername on socket s would answer now
SockNameOut(s, l, j) == GetName(sk[s].sun, SunCap, l, j)
PeerNameOut(s, l, j) ==
  IF sk[s].pfreed THEN [len |-> j, bytes |-> <<>>] ELSE GetName(sk[s].peer, SunCap, l, j)

\* connect on c and the accept that returned n have both completed, on the
\* two ends of one pipe instance
Paired(c, n) ==
  /\ sk[c].st = "open" /\ sk[c].cs = "connected" /\ sk[c].type = "stream"
  /\ sk[n].st = "open" /\ sk[n].cs = "connected"
  /\ ~NoH(sk[c].h) /\ ~NoH(sk[n].h)
  /\ sk[c].h[1] = "cli" /\ sk[n].h[1] = "srv" /\ sk[c].h[2] = sk[n].h[2]

\* C3: for every completed accept/connect pair, getpeername on the
\* connecting socket answers what getsockname on the accepted socket
\* answers, and getpeername on the accepted socket what getsockname on the
\* connecting socket answers (both calls finding the same bytes on their
\* stack).
C3_PeerNamesAgree ==
  \A c, n \in Socks :
    Paired(c, n) =>
      \A l \in Layouts, j \in Junk :
        /\ PeerNameOut(c, l, j) = SockNameOut(n, l, j)
        /\ PeerNameOut(n, l, j) = SockNameOut(c, l, j)

\* C4: the name packet a never bound stream socket sends when it connects
\* carries a name of length 2, and getpeername on the socket accept returned
\* for it reports length 2.
C4_UnnamedLength ==
  [][/\ \A t \in Threads :
          (/\ th[t].pc = "smn_copy" /\ th'[t] # th[t] /\ th[t].op = "connect"
           /\ sk[th[t].s].sun = NULLSUN)
            => th'[t].pkt.hdr.name_len = SizeofFamily
     /\ \A c, n \in Socks :
          (Paired(c, n)' /\ sk'[c].sun = NULLSUN)
            => \A l \in Layouts, j \in Junk : PeerNameOut(n, l, j)'.len = SizeofFamily]_vars

\* two open sockets are bound to the same name
SameName(a, b) ==
  /\ a # b
  /\ sk[a].st = "open" /\ sk[a].bs = "bound"
  /\ sk[b].st = "open" /\ sk[b].bs = "bound"
  /\ sk[a].sun = sk[b].sun

\* a name some open socket other than s is bound to
NameTaken(s, sun) ==
  \E b \in Socks : b # s /\ sk[b].st = "open" /\ sk[b].bs = "bound" /\ sk[b].sun = sun

\* C5: no two open sockets are bound to the same name, and a bind that comes
\* to create a name another open socket is bound to fails with EADDRINUSE and
\* stays unbound.
C5_NameExclusive ==
  [][/\ \A a, b \in Socks : ~SameName(a, b)'
     /\ \A t \in Threads :
          (th[t].pc = "bind_file" /\ th'[t] # th[t] /\ NameTaken(th[t].s, th[t].sun))
            => /\ th'[t].pc = "idle"
               /\ th'[t].err = "EADDRINUSE"
               /\ sk'[th[t].s].bs = "unbound"]_vars

\* C6: the names of the open autobound sockets are pairwise different.
C6_AutobindDistinct ==
  \A a, b \in Socks : SameName(a, b) => ~IsAutoName(sk[a].sun)

\* the pipes behind a name: the target of its abstract link, or the pipe
\* recorded in its socket file
Backing(sun) ==
  IF IsAbstract(sun)
    THEN {l.pipe : l \in {k \in links : k.name = sun.path /\ k.junk = 0}}
    ELSE {f.pipe : f \in {g \in files : g.key = CStr(sun.path)}}

\* the errors documented for a connect to name sun on a socket of this type
ConnDocumented(sun, type) ==
  LET short == sun.len <= SizeofFamily \/ (sun.len = 3 /\ sun.path[1] = 0)
      other == sun.fam # AF_UNIX
  IN
  (IF short THEN {"EINVAL"} ELSE {})
  \cup (IF other THEN {"EAFNOSUPPORT"} ELSE {})
  \cup (IF short \/ other THEN {}
        ELSE IF Backing(sun) = {} THEN {"ENOENT"}
        ELSE IF \E pn \in Backing(sun) : pn.tc # TypeChar(type) THEN {"EINVAL"}
        ELSE {})

ListenReturns(t) ==
  th'[t].pc = "idle" /\ th'[t].op = "listen" /\ th'[t] # th[t]

\* the errors documented for a listen on socket record r
ListenDocumented(r) ==
  (IF r.type = "dgram" THEN {"EOPNOTSUPP"} ELSE {})
  \cup (IF r.bs = "unbound" THEN {"EDESTADDRREQ"} ELSE {})
  \cup (IF r.cs = "listener" THEN {"EADDRINUSE"} ELSE {})
  \cup (IF r.cs \in {"connect_pending", "connected"} THEN {"EINVAL"} ELSE {})

\* C8: listen succeeds, with a first pipe instance and connect_state
\* listener, exactly when the socket is a bound stream socket that is
\* unconnected or connect_failed; otherwise it fails with the documented
\* error and leaves connect_state and the pipe handle as they were.
C8_Listen ==
  [][\A t \in Threads :
       ListenReturns(t) =>
         LET s == th'[t].s
             ok == /\ sk[s].type = "stream" /\ sk[s].bs = "bound"
                   /\ sk[s].cs \in {"unconnected", "connect_failed"}
         IN
         IF ok
           THEN /\ th'[t].ret = 0
                /\ sk'[s].cs = "listener"
                /\ ~NoH(sk'[s].h) /\ sk'[s].h[1] = "srv"
                /\ inst[sk'[s].h[2]].st = "free"
                /\ inst'[sk'[s].h[2]].st = "listening"
           ELSE /\ th'[t].ret = -1
                /\ th'[t].err \in ListenDocumented(sk[s])
                /\ sk'[s].cs = sk[s].cs
                /\ sk'[s].h = sk[s].h
                /\ inst' = inst]_vars

\* the threads that are inside connect on socket s, past its first lock
\* section
PastGate(s) ==
  {t \in Threads : th[t].op = "connect" /\ th[t].s = s /\ th[t].pc # "idle"}

\* what connect answers in its conn_lock section
ConnGate ==
  \A t \in Threads :
    (th[t].pc = "idle" /\ th'[t] # th[t] /\ th'[t].op = "connect") =>
      LET s == th'[t].s
          refused == /\ th'[t].pc = "idle" /\ th'[t].ret = -1
                     /\ sk' = sk /\ inst' = inst
      IN
      IF sk[s].cs = "connect_pending" THEN refused /\ th'[t].err = "EALREADY"
      ELSE IF sk[s].cs = "listener" THEN refused /\ th'[t].err = "EADDRINUSE"
      ELSE IF sk[s].cs = "connected" /\ sk[s].type = "stream"
        THEN refused /\ th'[t].err = "EISCONN"
      ELSE th'[t].pc # "idle" /\ sk'[s].cs = "connect_pending"

\* C9, the gate alone: connect on a connect_pending socket fails with
\* EALREADY, on a listener with EADDRINUSE, on a connected stream socket with
\* EISCONN, and changes nothing; any other connect goes on as connect_pending.
C9_GateErrors == [][ConnGate]_vars

\* C9: the gate, and of the threads that call connect on one socket at most
\* one is past the gate at any time.
C9_ConnectGate ==
  [][ConnGate /\ \A s \in Socks : Cardinality(PastGate(s)') <= 1]_vars

\* a call of accept returns a new socket in this step
AcceptReturns(t) ==
  th[t].op = "accept" /\ th[t].pc # "idle" /\ th'[t].pc = "idle" /\ th'[t].ret = 0

\* the new socket is connected on the instance the client connected to, the
\* listener is a listener still, on another instance that is listening
AcceptHandOff(t) ==
  LET s == th[t].s
      n == th'[t].ns
  IN
  /\ n \in Socks /\ n # s
  /\ sk'[n].st = "open" /\ sk'[n].cs = "connected"
  /\ ~NoH(sk'[n].h) /\ sk'[n].h[1] = "srv"
  /\ inst'[sk'[n].h[2]].cli # "none"
  /\ sk'[s].cs = "listener"
  /\ ~NoH(sk'[s].h) /\ sk'[s].h # sk'[n].h
  /\ inst'[sk'[s].h[2]].name = sk'[s].pname

\* the io_lock section of accept: the handle that was read is the one the
\* client connected to, and the handle installed is a new instance
AcceptSection(t) ==
  LET s == th[t].s IN
  sk'[s].h # sk[s].h =>
    /\ th'[t].acc = sk[s].h
    /\ ~NoH(sk[s].h) /\ inst[sk[s].h[2]].cli # "none"
    /\ ~NoH(sk'[s].h)
    /\ inst[sk'[s].h[2]].st = "free" /\ inst'[sk'[s].h[2]].st = "listening"

\* no instance was created in the section: accept is on its way to fail
\* with ENOBUFS, and the listener keeps its handle
AcceptNoInstance(t) ==
  LET s == th[t].s IN
  inst' = inst => /\ th'[t].pc = "acc_fail" /\ th'[t].err = "ENOBUFS"
                  /\ sk' = sk

\* the failing end of accept: the client is disconnected, no socket returned
AcceptFailed(t) ==
  /\ th'[t].pc = "idle" /\ th'[t].ret = -1 /\ th'[t].err = th[t].err
  /\ th'[t].ns = "none"
  /\ sk' = sk
  /\ ~NoH(th[t].acc) => inst'[th[t].acc[2]].st \in {"disconnected", "free"}

\* C10: a successful accept returns a new connected socket that holds the
\* handle the client connected on, while the listener stays listener on a
\* new, different instance; old handle read and new handle installed in one
\* io_lock section. When the new instance cannot be created, the client is
\* disconnected, accept fails with ENOBUFS, no socket is returned, and the
\* listener keeps its handle.
C10_AcceptHandOff ==
  [][\A t \in Threads :
       /\ AcceptReturns(t) => AcceptHandOff(t)
       /\ (th[t].pc = "acc_swap" /\ th'[t] # th[t]) =>
            (AcceptSection(t) /\ AcceptNoInstance(t))
       /\ (th[t].pc = "acc_fail" /\ th'[t] # th[t]) => AcceptFailed(t)]_vars

\* the wait of accept for a client ends in this step by a signal: the step
\* answers EINTR, or no client has connected to the instance waited on
AcceptInterrupted(t) ==
  /\ th[t].pc = "acc_wait" /\ th'[t] # th[t]
  /\ (th'[t].err = "EINTR" \/ inst[th[t].pipe[2]].st = "listening")

\* C11: an accept interrupted by a signal while it waits for a client
\* returns -1 with EINTR and no new socket; the sockets and the pipe
\* instances are what they were, the listener is still a listener on the
\* same handle.
C11_AcceptInterrupted ==
  [][\A t \in Threads :
       AcceptInterrupted(t) =>
         /\ th'[t].pc = "idle" /\ th'[t].ret = -1 /\ th'[t].err = "EINTR"
         /\ th'[t].ns = "none"
         /\ sk' = sk /\ inst' = inst
         /\ sk'[th[t].s].cs = "listener"]_vars

\* an accept has returned EINTR and the listener still listens on an
\* instance a later accept can wait on
C11_Witness ==
  \E t \in Threads :
    /\ th[t].pc = "idle" /\ th[t].op = "accept"
    /\ th[t].ret = -1 /\ th[t].err = "EINTR"
    /\ sk[th[t].s].st = "open" /\ sk[th[t].s].cs = "listener"
    /\ ~NoH(sk[th[t].s].h) /\ inst[sk[th[t].s].h[2]].st = "listening"

\* thread t leaves the wait of a blocking connect in this step, after cygwait
\* had returned cw
LeavesWait(t, cw) ==
  th[t].pc = "wp_reap" /\ th[t].cw = cw /\ th'[t] # th[t]

\* C13: a blocking connect whose wait for the waiter is interrupted by a
\* signal returns -1 with EINTR, and connect_state, so_error and the peer name
\* are what they were when connect was called (so_error may have been read
\* and cleared meanwhile).
C13_ConnectInterrupted ==
  [][\A t \in Threads :
       LeavesWait(t, "WAIT_SIGNALED") =>
         LET s == th[t].s IN
         /\ th'[t].pc = "idle" /\ th'[t].ret = -1 /\ th'[t].err = "EINTR"
         /\ sk'[s].cs = th[t].pre.cs
         /\ sk'[s].so_error \in {th[t].pre.so_error, "0"}
         /\ sk'[s].peer = th[t].pre.peer]_vars

\* C14: a blocking connect that finds a thread cancel pending while it waits
\* for the waiter leaves the wait with the waiter joined and by cancelling
\* the calling thread; it does not return.
C14_ConnectCancelled ==
  [][\A t \in Threads :
       LeavesWait(t, "WAIT_CANCELED") =>
         /\ wt[th[t].s].pc = "done"
         /\ th'[t].pc = "cancelled"]_vars

\* C15: a read of SO_ERROR returns the stored so_error and leaves 0 behind,
\* and for each connect that failed at most one read returns an error.
C15_ErrorReadOnce ==
  [][/\ \A t \in Threads :
          Answered(t, "getsockopt") =>
            /\ th'[t].out = <<sk[th'[t].s].so_error>>
            /\ sk'[th'[t].s].so_error = "0"
     /\ \A s \in Socks : sk'[s].unread >= 0]_vars

\* a non-blocking connect on s has started a waiter, the time is not up, the
\* peer's pipe is there and has an instance to connect to
NbWaiting(s) ==
  /\ sk[s].st = "open" /\ sk[s].nb /\ sk[s].thr = "thr"
  /\ wt[s].err \notin {"ETIMEDOUT", "EADDRNOTAVAIL", "ENOENT"}
  /\ ListeningInst(inst, wt[s].ppipe) # {}

\* the waiter has connected s and SO_ERROR reads 0, or the time was up or the
\* peer's pipe was gone, or s is closed
NbSettled(s) ==
  \/ sk[s].cs = "connected" /\ sk[s].so_error = "0"
  \/ wt[s].err \in {"ETIMEDOUT", "EADDRNOTAVAIL", "ENOENT"}
  \/ sk[s].st # "open"

\* C12: a non-blocking stream connect that has started the waiter returns -1
\* with EINPROGRESS and leaves connect_state as it is; when a pipe instance
\* is available before the time is up, the socket eventually is connected
\* with SO_ERROR reading 0, and once connected SO_ERROR keeps reading 0.
C12_NonBlockingConnect ==
  /\ [][\A t \in Threads :
          (th[t].pc = "wp_out" /\ th'[t] # th[t]) =>
            /\ th'[t].pc = "idle" /\ th'[t].ret = -1 /\ th'[t].err = "EINPROGRESS"
            /\ sk'[th[t].s].cs = sk[th[t].s].cs
            /\ sk'[th[t].s].thr = "thr"]_vars
  /\ \A s \in Socks : [](NbWaiting(s) => <>NbSettled(s))
  /\ \A s \in Socks :
       []((sk[s].st = "open" /\ sk[s].nb /\ sk[s].cs = "connected") => sk[s].so_error = "0")

\* the locks of its socket that thread t holds
Holds(t) ==
  {l \in {"bind", "conn", "io"} :
     lk[th[t].s][l].x = t \/ t \in lk[th[t].s][l].sh}

\* C16: every close returns, with 0, and holds none of the three locks of
\* the socket while it waits for the waiter thread to exit.
C16_CloseTerminates ==
  /\ \A t \in Threads :
       [](th[t].pc \in {"close_join", "close_fin"}
            => <>(th[t].pc = "idle" /\ th[t].op = "close" /\ th[t].ret = 0))
  /\ [](\A t \in Threads : th[t].pc = "close_join" => Holds(t) = {})


\* ------------------------------------------------------------------ C17
\* C17: in every reachable state a socket whose connect_state is connected
\* has a pipe handle that is not NULL, whichever way it was connected: by
\* connect itself, by the waiter, by accept4, or as a datagram socket.
C17_ConnectedHasPipe ==
  \A s \in Socks :
    (sk[s].st = "open" /\ sk[s].cs = "connected") => sk[s].h # NULLH


\* ------------------------------------------------------------------ C18
\* C18: in every reachable state a socket whose connect_state is listener
\* is a stream socket whose binding state is bound.
C18_ListenerIsBoundStream ==
  \A s \in Socks :
    (sk[s].st = "open" /\ sk[s].cs = "listener")
      => (sk[s].type = "stream" /\ sk[s].bs = "bound")

\* a listener exists, after listen was refused on a datagram socket and on
\* a socket that is not bound
C18_Witness ==
  /\ \E s \in Socks : sk[s].st = "open" /\ sk[s].cs = "listener"
  /\ \E t \in Threads :
       /\ th[t].pc = "idle" /\ th[t].op = "listen"
       /\ th[t].err \in {"EOPNOTSUPP", "EDESTADDRREQ"}


\* ------------------------------------------------------------------ C19
\* the socket has a bound name of at least one byte of sun_path
HasName(r) == r.sun # NULLSUN /\ r.sun.len > SizeofFamily

\* C19: in every reachable state a socket whose binding state is bound has
\* a bound name that is not empty, and a datagram socket that is bound has
\* a pipe handle that is not NULL.
C19_BoundHasName ==
  \A s \in Socks :
    (sk[s].st = "open" /\ sk[s].bs = "bound")
      => (HasName(sk[s]) /\ (sk[s].type = "dgram" => sk[s].h # NULLH))

\* a datagram socket was bound by autobind and a stream socket is bound
\* too, the last bind having returned 0
C19_Witness ==
  /\ \E s \in Socks :
       /\ sk[s].st = "open" /\ sk[s].bs = "bound" /\ sk[s].type = "dgram"
       /\ sk[s].sun = SunName(AutoName(0))
  /\ \E s \in Socks :
       /\ sk[s].st = "open" /\ sk[s].bs = "bound" /\ sk[s].type = "stream"
  /\ \E t \in Threads :
       /\ th[t].pc = "idle" /\ th[t].op = "bind" /\ th[t].ret = 0


\* ------------------------------------------------------------------ C20
\* the completion mode of the pipe end a handle names
PipeMode(I, h) == IF h[1] = "srv" THEN I[h[2]].smode ELSE I[h[2]].cmode

\* the handle names an end of a pipe instance that exists
LiveH(I, h) == ~NoH(h) /\ I[h[2]].st # "free"

\* thread t is in no method before and after the step, and its last call
\* is op
FlagCall(t, op) == th[t].pc = "idle" /\ th'[t].pc = "idle" /\ th'[t].op = op

\* what a call that asks for the non-blocking flag req does on socket s:
\* the flag is req afterwards; when it was req before, no call of
\* set_pipe_non_blocking is made and no pipe changes; when it was not, one
\* call is made, with req, and the pipe of the socket is in that mode
FlagOutcome(t, s, req) ==
  /\ sk'[s].nb = req
  /\ th'[t].ret = 0
  /\ IF sk[s].nb = req
       THEN th'[t].out = <<>> /\ inst' = inst
       ELSE /\ th'[t].out = <<req>>
            /\ LiveH(inst, sk[s].h) => PipeMode(inst', sk[s].h) = req
            /\ \A i \in InstIds :
                 (NoH(sk[s].h) \/ i # sk[s].h[2]) => inst'[i] = inst[i]

\* C20: FIONBIO and F_SETFL switch the completion mode of the pipe only when
\* the non-blocking flag changes: a call that asks for the value the flag
\* has leaves flag and pipe mode as they are and makes no switch, a call
\* that changes the flag makes exactly one switch, to the new value.
C20_FlagSwitch ==
  [][/\ FlagCall("t1", "FIONBIO") =>
          \A s \in FlagSocks, v \in FlagValues :
            Ioctl("t1", s, "FIONBIO", v) => FlagOutcome("t1", s, v # 0)
     /\ FlagCall("t1", "F_SETFL") =>
          \A s \in FlagSocks, arg \in FlagArgs :
            Fcntl("t1", s, "F_SETFL", arg)
              => FlagOutcome("t1", s, arg \cap NonblockMask # {})]_vars

\* the flag of a connected socket was changed by F_SETFL and its pipe end
\* is in the new mode, and the pipe of the listener is in the mode of the
\* listener's flag
C20_Witness ==
  /\ th["t1"].pc = "idle" /\ th["t1"].op = "F_SETFL" /\ th["t1"].out = <<TRUE>>
  /\ sk["s2"].cs = "connected" /\ LiveH(inst, sk["s2"].h)
  /\ PipeMode(inst, sk["s2"].h) /\ sk["s2"].fl = {"O_APPEND", "OLD_O_NDELAY"}
  /\ sk["s1"].cs = "listener" /\ LiveH(inst, sk["s1"].h)
  /\ ~sk["s1"].nb /\ ~PipeMode(inst, sk["s1"].h)


\* ------------------------------------------------------------------ C21
\* the waiter task of socket s has been started and has not exited yet
WaiterRuns(s) == wt[s].pc \notin {"none", "done"}

\* C21: while the waiter task runs, the termination event it waits on is a
\* valid event (also after a non-blocking connect has returned EINPROGRESS),
\* and the waiter leaves with EINTR only when the event has been signalled
\* by the owning socket.
C21_TerminationEvent ==
  \A s \in Socks :
    WaiterRuns(s) =>
      /\ wt[s].ev \in {"open", "signalled"}
      /\ (wt[s].pc \in {"w_out", "w_fin"} /\ wt[s].err = "EINTR") => wt[s].ev = "signalled"


\* ------------------------------------------------------------------ C22
\* C22: close publishes the termination event, joins the waiter, and only
\* then closes the pipe handle and the backing handle: while close waits for
\* a waiter that is running the termination event is signalled, and the
\* socket's handles are closed only when the waiter has exited.
C22_CloseOrder ==
  /\ [](\A t \in Threads :
          (th[t].pc = "close_join" /\ WaiterRuns(th[t].s))
            => wt[th[t].s].ev = "signalled")
  /\ [][\A s \in Socks :
          (sk[s].st = "closing" /\ sk'[s].st = "closed") => ~WaiterRuns(s)]_vars


\* ------------------------------------------------------------------ C23
\* C23: the parameter block of the waiter is freed exactly once, in every
\* interleaving of wait_pipe, the waiter and close and also when the waiter
\* could not be created: it is never freed twice, and it is not freed
\* while cwt_param still points to it.
C23_ParamFreedOnce ==
  \A s \in Socks :
    /\ wt[s].blk # "freed twice"
    /\ wt[s].blk = "freed" => sk[s].param = "null"


\* ------------------------------------------------------------------ C24
\* C24: an operation that has returned holds none of the locks it acquired:
\* a thread that is in no method holds neither bind_lock nor conn_lock nor
\* io_lock of any socket, exclusively or shared.
C24_LocksReleased ==
  \A t \in Threads :
    th[t].pc = "idle" =>
      \A s \in Socks : \A l \in {"bind", "conn", "io"} :
        lk[s][l].x # t /\ t \notin lk[s][l].sh


\* ------------------------------------------------------------------ C25
\* The places of the code that lie inside an exclusive section of a lock,
\* as the method and the position the step is taken from: the first part of
\* bind for bind_lock; the first part of connect, the second part of listen
\* and the end of the waiter for conn_lock; the write of send_my_name (in a
\* caller and in the waiter) and the swap of handles in accept4 for io_lock.
ExclusiveAt(l) ==
  IF l = "bind" THEN {<<"bind", "idle">>}
  ELSE IF l = "conn" THEN {<<"connect", "idle">>, <<"listen", "listen_conn">>,
                           <<"waiter", "w_fin">>}
  ELSE {<<"bind", "smn_write">>, <<"connect", "smn_write">>,
        <<"waiter", "w_smn_write">>, <<"accept", "acc_swap">>}

\* thread t takes this step, in a method of socket s
Acts(t, s) ==
  /\ th'[t] # th[t]
  /\ ~(th[t].pc = "idle" /\ th'[t] = IdleFrame)
  /\ IF th[t].pc = "idle" THEN th'[t].s = s ELSE th[t].s = s

\* the place thread t takes this step from
StepAt(t) == <<IF th[t].pc = "idle" THEN th'[t].op ELSE th[t].op, th[t].pc>>

\* this step is taken on socket s inside an exclusive section of lock l, by
\* a calling thread or by the waiter of s
InExclusive(s, l) ==
  \/ \E t \in Threads : Acts(t, s) /\ StepAt(t) \in ExclusiveAt(l)
  \/ th' = th /\ wt'[s] # wt[s] /\ <<"waiter", wt[s].pc>> \in ExclusiveAt(l)

\* socket s is open, and visible to all threads, before and after the step
Visible(s) == sk[s].st = "open" /\ sk'[s].st = "open"

\* C25: the connect state of a socket is written only inside an exclusive
\* conn_lock section, in connect, in listen and in the waiter.
C25_ConnStateLocked ==
  [][\A s \in Socks :
       (Visible(s) /\ sk'[s].cs # sk[s].cs) => InExclusive(s, "conn")]_vars


\* ------------------------------------------------------------------ C26
\* C26: the pipe handle of a socket that is visible to other threads is
\* written only inside an exclusive io_lock section, in bind, in listen, in
\* open_pipe and in accept4.
C26_PipeHandleLocked ==
  [][\A s \in Socks :
       (Visible(s) /\ sk'[s].h # sk[s].h) => InExclusive(s, "io")]_vars


\* ------------------------------------------------------------------ C27
\* C27: the bound name and the binding state of a socket are written only
\* inside an exclusive bind_lock section, hence never while another thread
\* holds bind_lock shared to read them.
C27_NameLocked ==
  [][\A s \in Socks :
       (Visible(s) /\ (sk'[s].sun # sk[s].sun \/ sk'[s].bs # sk[s].bs))
         => (InExclusive(s, "bind") /\ lk[s].bind.sh = {})]_vars


\* ------------------------------------------------------------------ C28
\* The places of the code where a lock is requested, shared or exclusive:
\* besides the exclusive sections, bind_lock is requested shared at the
\* entry of listen and in the first part of send_my_name.
RequestsAt(l) ==
  IF l = "bind" THEN ExclusiveAt(l) \cup
                     {<<"listen", "idle">>, <<"bind", "smn_copy">>, <<"connect", "smn_copy">>,
                      <<"waiter", "w_smn_copy">>}
  ELSE ExclusiveAt(l)

\* thread t holds lock l of socket s, exclusively or shared
HoldsLock(t, s, l) == lk[s][l].x = t \/ t \in lk[s][l].sh

\* C28: the locks of a socket are requested in the order bind_lock,
\* conn_lock, io_lock: no thread requests bind_lock while it holds conn_lock
\* or io_lock, nor conn_lock while it holds io_lock, nor a lock exclusively
\* while it holds that lock shared.
C28_LockOrder ==
  [][\A t \in Threads, s \in Socks :
       Acts(t, s) =>
         /\ StepAt(t) \in RequestsAt("bind")
              => ~HoldsLock(t, s, "conn") /\ ~HoldsLock(t, s, "io")
         /\ StepAt(t) \in RequestsAt("conn") => ~HoldsLock(t, s, "io")
         /\ \A l \in {"bind", "conn", "io"} :
              StepAt(t) \in ExclusiveAt(l) => t \notin lk[s][l].sh]_vars


\* ------------------------------------------------------------------ C29
\* the wait of recv_peer_name in accept4 ends in this step although no
\* packet has arrived and the client is still connected: the 20 seconds
\* have passed, or a signal has arrived
RecvTimedOut(t) ==
  /\ th[t].pc = "acc_rwait" /\ th'[t].pc = "idle"
  /\ inst[th[t].acc[2]].qs = <<>>
  /\ inst[th[t].acc[2]].st = "connected"

\* C29: when the read of the peer's name packet in accept times out or is
\* interrupted by a signal, accept fails with ECONNABORTED or EINTR, returns
\* no new socket and disconnects the accepted client.
C29_RecvPeerNameTimeout ==
  [][\A t \in Threads :
       RecvTimedOut(t) =>
         /\ th'[t].ret = -1 /\ th'[t].err \in {"ECONNABORTED", "EINTR"}
         /\ sk'[th[t].ns].st = "free"
         /\ inst'[th[t].acc[2]].st = "disconnected"]_vars


\* ------------------------------------------------------------------ C30
\* pckt_len is the sum of the header size and the three lengths
PcktLenOK(hdr) == hdr.pckt_len = HdrSize + hdr.name_len + hdr.cmsg_len + hdr.data_len

\* recv_peer_name in accept4 of thread t reads, in this step, a packet whose
\* pckt_len is not that sum
ReadsBadPacket(t) ==
  /\ th[t].pc \in {"acc_recv", "acc_rwait"} /\ th'[t].pc = "idle"
  /\ th'[t].err # "ENOBUFS"
  /\ ~NoH(th[t].acc)
  /\ inst[th[t].acc[2]].qs # <<>>
  /\ ~PcktLenOK(Head(inst[th[t].acc[2]].qs).hdr)

\* C30: a packet whose pckt_len differs from header size + name_len +
\* cmsg_len + data_len is rejected by the reader with EPROTO, and no peer
\* name is taken from it.
C30_PcktLenChecked ==
  [][\A t \in Threads :
       ReadsBadPacket(t) =>
         /\ th'[t].ret = -1 /\ th'[t].err = "EPROTO"
         /\ sk'[th[t].ns].st = "free"]_vars

\* ------------------------------------------------------------------ C31
\* the blocks a reader finds at the offsets the header of the buffer gives
Decoded(buf, part, len) ==
  SubSeq(buf, PktOffsetof(HdrOf(buf), part) + 1, PktOffsetof(HdrOf(buf), part) + len)

\* C31: for every name, cmsg and data whose lengths with the 8-byte header
\* add up to at most 65520, the header of the packet holds the three lengths
\* unchanged and pckt_len = 8 + name_len + cmsg_len + data_len, the regions
\* start at offsets 8, 8 + name_len and 8 + name_len + cmsg_len, and the
\* name, cmsg and data decoded from the packet equal the ones encoded
C31_PacketRoundTrip ==
  \A t \in Threads :
    th[t].op = "packet" =>
      LET p == th[t].pkt
          buf == th[t].out
          h == HdrOf(buf)
          n == Len(p.name)
          c == Len(p.cmsg)
          d == Len(p.data)
      IN HdrSize + n + c + d <= 65520 =>
           /\ h.name_len = n /\ h.cmsg_len = c /\ h.data_len = d
           /\ h.pckt_len = HdrSize + n + c + d
           /\ Len(buf) = h.pckt_len
           /\ PktOffsetof(h, "name") = HdrSize
           /\ PktOffsetof(h, "cmsg") = HdrSize + n
           /\ PktOffsetof(h, "data") = HdrSize + n + c
           /\ Decoded(buf, "name", h.name_len) = p.name
           /\ Decoded(buf, "cmsg", h.cmsg_len) = p.cmsg
           /\ Decoded(buf, "data", h.data_len) = p.data

\* a packet of exactly the largest size that carries a name and data
C31_Witness ==
  /\ \E t \in Threads :
       /\ th[t].op = "packet"
       /\ Len(th[t].pkt.name) > 0 /\ Len(th[t].pkt.data) > 0
       /\ Len(th[t].out) = 65520
       /\ HdrOf(th[t].out).pckt_len = 65520

\* ------------------------------------------------------------------ C32
\* no thread and no waiter is inside a method of socket s
NoOperation(s) == Quiet(s) /\ ~WaiterRuns(s)

\* C32: whenever no operation is in progress on a socket that has a pipe
\* handle, the completion mode of the pipe end equals the non-blocking flag
\* of the socket, in every interleaving of the calls
C32_ModeFollowsFlag ==
  \A s \in Socks :
    sk[s].st = "open" /\ NoOperation(s) /\ LiveH(inst, sk[s].h) =>
      PipeMode(inst, sk[s].h) = sk[s].nb

\* ------------------------------------------------------------------ C33
\* the packets on their way from the pipe handle h to the other end
PeerQueue(I, h) == IF h[1] = "cli" THEN I[h[2]].qs ELSE I[h[2]].qc

\* no packet is queued or taken anywhere in this step
QueuesUnchanged ==
  \A i \in InstIds : inst'[i].qs = inst[i].qs /\ inst'[i].qc = inst[i].qc

\* thread t takes a step of bind
BindActs(t) ==
  /\ th'[t] # th[t]
  /\ IF th[t].pc = "idle" THEN th'[t].op = "bind" ELSE th[t].op = "bind"

\* this step of bind by t queues one packet for the peer of its socket and
\* nothing else: a header with cmsg_len = 0 and data_len = 0, followed by
\* the name the socket is bound to now
SendsName(t) ==
  LET s == th[t].s
      h == sk[s].h
  IN
  /\ ~NoH(h)
  /\ Len(PeerQueue(inst', h)) = Len(PeerQueue(inst, h)) + 1
  /\ SubSeq(PeerQueue(inst', h), 1, Len(PeerQueue(inst, h))) = PeerQueue(inst, h)
  /\ LET pkt == PeerQueue(inst', h)[Len(PeerQueue(inst', h))] IN
       /\ pkt.hdr.cmsg_len = 0 /\ pkt.hdr.data_len = 0
       /\ sk'[s].sun # NULLSUN /\ pkt.hdr.name_len = sk'[s].sun.len
       /\ pkt.hdr.pckt_len = HdrSize + pkt.hdr.name_len
       /\ pkt.name = sk'[s].sun
  /\ \A i \in InstIds :
       /\ (h # CliH(i) => inst'[i].qs = inst[i].qs)
       /\ (h # SrvH(i) => inst'[i].qc = inst[i].qc)

\* the step in which a bind on a connected stream socket returns success
BindConnectedReturns(t) ==
  /\ BindReturns(t) /\ th'[t].ret = 0
  /\ sk[th[t].s].type = "stream" /\ sk[th[t].s].cs = "connected"

\* C33 as stated: a successful bind on a stream socket that is already
\* connected sends exactly one header-only packet with the newly bound name
\* to the peer, in the step in which it returns, and no other step of a
\* bind sends a packet
C33_BindSendsName ==
  [][\A t \in Threads :
       BindActs(t) =>
         IF BindConnectedReturns(t) THEN SendsName(t) ELSE QueuesUnchanged]_vars

\* C33, amended: the packet is sent when the other end of the pipe is still
\* open; when the peer has closed or disconnected its end, bind succeeds as
\* well and no packet is sent
C33_BindSendsNameToOpenPeer ==
  [][\A t \in Threads :
       BindActs(t) =>
         IF BindConnectedReturns(t) /\ WriteOK(inst, sk[th[t].s].h)
           THEN SendsName(t) ELSE QueuesUnchanged]_vars

\* a bind on a connected stream socket has returned success, the socket is
\* bound, and the packet with its name is the last one queued for the peer
C33_Witness ==
  \E t \in Threads :
    LET s == th[t].s IN
    /\ th[t].pc = "idle" /\ th[t].op = "bind" /\ th[t].ret = 0
    /\ sk[s].type = "stream" /\ sk[s].cs = "connected" /\ sk[s].bs = "bound"
    /\ WriteOK(inst, sk[s].h)
    /\ PeerQueue(inst, sk[s].h) # <<>>
    /\ PeerQueue(inst, sk[s].h)[Len(PeerQueue(inst, sk[s].h))].name = sk[s].sun

\* ------------------------------------------------------------------ C34
\* the waiter of s found the instance taken by another connector in this step
InstanceTaken(s) ==
  /\ wt[s].pc = "w_open" /\ wt'[s].pc \in {"w_wait", "w_out"}
  /\ PipeExists(inst, wt[s].ppipe) /\ ListeningInst(inst, wt[s].ppipe) = {}

\* C34: the waiter has one budget of 20 seconds for all its waits: after a
\* retry the timeout of the next wait is 20 seconds minus the time since the
\* waiter started, the waiter leaves with ETIMEDOUT exactly when nothing of
\* that is left, and the time waited never exceeds 20 seconds
C34_TimeBudget ==
  /\ [](\A s \in Socks : wt[s].el <= ConnectSecs)
  /\ [][\A s \in Socks :
          InstanceTaken(s) =>
            IF ConnectSecs - wt'[s].el <= 0
              THEN wt'[s].pc = "w_out" /\ wt'[s].err = "ETIMEDOUT"
              ELSE wt'[s].pc = "w_wait" /\ 0 - wt'[s].tmo = ConnectSecs - wt'[s].el]_vars

\* ------------------------------------------------------------------ C35
\* C35: no step of a bind changes the connect state or the peer name of its
\* socket, and on a connected socket getpeername answers after the step what
\* it answered before
C35_BindKeepsPeer ==
  [][\A t \in Threads, s \in Socks :
       BindActs(t) /\ s = (IF th[t].pc = "idle" THEN th'[t].s ELSE th[t].s) =>
         /\ sk'[s].cs = sk[s].cs
         /\ sk'[s].peer = sk[s].peer
         /\ sk[s].cs = "connected" =>
              \A l \in Layouts, j \in Junk : PeerNameOut(s, l, j)' = PeerNameOut(s, l, j)]_vars

\* ------------------------------------------------------------------ C36
\* socket n was returned by an accept
Accepted(n) == sk[n].st = "open" /\ sk[n].cs = "connected" /\ sk[n].pname.ino # ""

\* C36: with several threads in accept on one listener, every socket that
\* accept has returned holds a pipe instance a client is connected to, no
\* two of them hold the same handle, and none holds the handle of a listener
C36_AcceptedHandles ==
  \A n \in Socks :
    Accepted(n) =>
      /\ LiveH(inst, sk[n].h)
      /\ inst[sk[n].h[2]].st \in {"connected", "closing"}
      /\ inst[sk[n].h[2]].cli # "none"
      /\ \A m \in Socks \ {n} : Accepted(m) => sk[m].h # sk[n].h
      /\ \A l \in Socks : sk[l].st = "open" /\ sk[l].cs = "listener" => sk[l].h # sk[n].h

\* ------------------------------------------------------------------ C37
\* thread t is in the loop of listen while a bind on the same socket is
\* under way
Spinning(t) == th[t].pc = "listen_spin" /\ sk[th[t].s].bs = "bind_pending"

\* the listen of thread t has returned
ListenEnded(t) == th[t].pc = "idle" /\ th[t].op = "listen"

\* C37: a listen that finds a bind under way on its socket terminates.  It
\* holds bind_lock shared while it is in the loop, it leaves the loop when
\* the bind has reached bound or unbound, with EDESTADDRREQ when the socket
\* is unbound and for its connect-state section when it is bound, and that
\* section returns
C37_ListenTerminates ==
  /\ \A t \in Threads : [](Spinning(t) => <>ListenEnded(t))
  /\ [](\A t \in Threads : th[t].pc = "listen_spin" => t \in lk[th[t].s].bind.sh)
  /\ [][\A t \in Threads :
          (th[t].pc = "listen_spin" /\ th'[t] # th[t]) =>
            /\ sk[th[t].s].bs # "bind_pending"
            /\ t \notin lk'[th[t].s].bind.sh
            /\ IF sk[th[t].s].bs = "unbound"
                 THEN ListenEnded(t)' /\ th'[t].ret = -1 /\ th'[t].err = "EDESTADDRREQ"
                 ELSE th'[t].pc = "listen_conn"]_vars

\* a thread is in the loop of listen while another thread is inside bind on
\* the same socket
C37_Witness ==
  \E t \in Threads, u \in Threads :
    /\ Spinning(t)
    /\ th[u].op = "bind" /\ th[u].pc # "idle" /\ th[u].s = th[t].s

\* ------------------------------------------------------------------ C38
\* the server end h of a pipe instance is open
HandleOpen(I, h) == ~NoH(h) /\ h[1] = "srv" /\ I[h[2]].srv

\* thread t leaves accept4 with -1 after listen_pipe found a client
AcceptFailsAfterClient(t) ==
  /\ th[t].op = "accept" /\ th[t].pc \in {"acc_fail", "acc_recv", "acc_rwait"}
  /\ th'[t].pc = "idle" /\ th'[t].ret = -1

\* C38: when an accept fails after a client has connected, the handle the
\* client connected on and the handle of the new instance are afterwards
\* each the pipe handle of an open socket (the listener or a socket
\* returned to a caller), or closed
C38_NoUnownedHandle ==
  [][\A t \in Threads : AcceptFailsAfterClient(t) =>
       \A h \in {th[t].acc, th[t].pipe} :
         HandleOpen(inst', h) => \E s \in Socks : sk'[s].st = "open" /\ sk'[s].h = h]_vars

\* C38, the case in which the new instance was not created and no other
\* accept is under way: the handle the client connected on is still the
\* listener's
C38_ListenerKeepsHandle ==
  [][\A t \in Threads :
       (AcceptFailsAfterClient(t) /\ th[t].pc = "acc_fail" /\ th[t].pipe = NULLH
          /\ sk[th[t].s].st = "open"
          /\ \A u \in Threads \ {t} : th[u].op = "accept" => th[u].pc = "idle") =>
         sk'[th[t].s].h = th[t].acc]_vars

\* ------------------------------------------------------------------ C39
\* thread t fails in the checks of a connect it made on a datagram socket
\* that was connected
DgramConnectFails(t) ==
  /\ th[t].op = "connect" /\ th[t].pc = "conn_check"
  /\ sk[th[t].s].type = "dgram" /\ th[t].pre.cs = "connected"
  /\ th'[t].pc = "idle" /\ th'[t].ret = -1

\* C39: a connect that fails on a connected datagram socket leaves it
\* connected to the peer it had: connect_state is connected and getpeername
\* answers the peer name it answered before the call
C39_DgramKeepsPeer ==
  [][\A t \in Threads, s \in Socks :
       DgramConnectFails(t) /\ s = th[t].s =>
         /\ sk'[s].cs = "connected"
         /\ sk'[s].peer = th[t].pre.peer /\ sk'[s].pfreed = th[t].pre.pfreed
         /\ \A l \in Layouts, j \in Junk : PeerNameOut(s, l, j)' = PeerNameOut(s, l, j)]_vars

\* C39, the part on the peer name alone
C39_DgramKeepsPeerName ==
  [][\A t \in Threads, s \in Socks :
       DgramConnectFails(t) /\ s = th[t].s =>
         /\ sk'[s].peer = th[t].pre.peer /\ sk'[s].pfreed = th[t].pre.pfreed
         /\ sk'[s].peer # NULLSUN
         /\ \A l \in Layouts, j \in Junk : PeerNameOut(s, l, j)' = PeerNameOut(s, l, j)]_vars

\* ------------------------------------------------------------------ C40
\* thread t makes the call cmd of ioctl or fcntl on socket s in this step
FlagCallOn(t, s, cmd) ==
  /\ th[t].pc = "idle" /\ th'[t].pc = "idle" /\ th'[t] # th[t]
  /\ th'[t].op = cmd /\ th'[t].s = s

\* the flags of s and the modes of the pipe instances are left alone
FlagsKept(s) == sk'[s].fl = sk[s].fl /\ sk'[s].nb = sk[s].nb /\ inst' = inst

\* the non-blocking flag of an open socket changes in calls cmds only, the
\* ioctl commands quiet leave the flags and the completion mode unchanged,
\* and F_SETFL changes O_APPEND and the non-blocking bits only
FlagFrame(cmds, quiet) ==
  \A s \in Socks :
    /\ (sk[s].st = "open" /\ sk'[s].st = "open" /\ sk'[s].nb # sk[s].nb) =>
         \E t \in Threads, cmd \in cmds : FlagCallOn(t, s, cmd)
    /\ \A t \in Threads, cmd \in quiet : FlagCallOn(t, s, cmd) => FlagsKept(s)
    /\ \A t \in Threads : FlagCallOn(t, s, "F_SETFL") =>
         sk'[s].fl \ AllowedFlags = sk[s].fl \ AllowedFlags

\* C40: only FIONBIO and F_SETFL change the non-blocking flag of a socket;
\* FIONREAD, FIOASYNC and SIOCATMARK leave the flag and the pipe completion
\* mode unchanged; F_SETFL changes no bits but O_APPEND and the non-blocking
\* bits
C40_FlagFrame ==
  [][FlagFrame({"FIONBIO", "F_SETFL"}, IoctlCmds \ {"FIONBIO"})]_vars

\* C40 with FIONREAD counted among the commands that store the flag
C40_FlagFrameFionread ==
  [][FlagFrame({"FIONBIO", "FIONREAD", "F_SETFL"}, IoctlCmds \ {"FIONBIO", "FIONREAD"})]_vars

====
